---- MODULE Spec2Model ----
(***************************************************************************)
(* Orchestration engines of SSESIS.                                        *)
(*   src/MultiAgentSystem.py : recursive decomposition mode ("decomp")     *)
(*   src/MAS.py              : stage pipeline mode          ("pipe")      *)
(* Each file is a program of its own with one CoreEngine (ENGINE) and one  *)
(* generator process_pipeline per /stream request.  A behaviour runs one   *)
(* of the two programs; `program` says which.                              *)
(***************************************************************************)
EXTENDS Integers, Sequences, FiniteSets, TLC

VARIABLES
    program,        \* which file is running: "decomp" | "pipe"
    model,          \* ENGINE.model: "none" (None) | "loaded"
    lock,           \* ENGINE.lock: 0 when free, else the run holding it
    inflight,       \* runs whose create_completion call is executing / streaming
    sessions,       \* ENGINE.sessions: session id -> history (sequence of Turns)
    req,            \* per run: the request (session_id, settings)
    pc,             \* per run: position in process_pipeline
    phase,          \* per run: position inside ENGINE.inference
    res,            \* per run: result of the last ENGINE.inference call
    task_stack,     \* per run: task_stack
    item,           \* per run: item popped last (depth, task, type)
    is_complex,     \* per run
    val_w,          \* per run
    val_h,          \* per run
    val_i,          \* per run
    content_chunk,  \* per run: increments consumed from the leaf stream
    global_context, \* per run: leaf transcripts appended (tasks, in order)
    feats,          \* per run (pipe): the protocol flags in force
    cfs,            \* per run (pipe)
    feb,            \* per run (pipe)
    final_plan,     \* per run (pipe)
    full_resp,      \* per run (pipe): increments of the response, in order
    logs,           \* per run (pipe): simulated logs
    raised,         \* per run: exception that left the generator, or "none"
    events,         \* per run: the stream emitted so far (when observed)
    popped,         \* per run: items popped so far (when observed)
    iter,           \* per run: what the current loop iteration did to its node
    created,        \* per run: SUB nodes pushed so far
    calls,          \* per run: call sites that entered create_completion, for the
                    \* item being processed (decomp) or the run (pipe), when observed
    observed,       \* whether events/popped are recorded in this behaviour
    ctx,            \* prune_context: the argument ctx
    limit,          \* prune_context: the argument limit
    pruned,         \* prune_context: the value returned, once it has returned
    created_at,     \* session id -> the session's "created" stamp
    order,          \* the keys of ENGINE.sessions in insertion order (dict order)
    clock,          \* time.time() as last read
    issued,         \* session ids create_session has returned so far
    ret,            \* the store operation executed last and what it returned
    deterministic,  \* the gateway answers equal prompts with equal responses
    memo,           \* call site -> the prompt answered for run 1 and not yet for run 2
    verdicts,       \* run -> the nodes the router has judged, each with its verdict
    loader,         \* where the thread of a /load_model request stands
    loads           \* load_model calls that have returned or raised

engineVars == <<program, model, lock, inflight, sessions>>
decompVars == <<task_stack, item, is_complex, val_w, val_h, val_i,
                content_chunk, global_context>>
pipeVars   == <<feats, cfs, feb, final_plan, full_resp, logs>>
obsVars    == <<events, popped, iter, created, calls, observed>>
pruneVars  == <<ctx, limit, pruned>>
storeVars  == <<created_at, order, clock, issued, ret>>
gateVars   == <<deterministic, memo, verdicts>>
loadVars   == <<loader, loads>>
vars == <<engineVars, req, pc, phase, res, decompVars, pipeVars, raised, obsVars,
          pruneVars, storeVars, gateVars, loadVars>>

(***************************************************************************)
(* Bounds of the model.                                                    *)
(***************************************************************************)
NumRuns   == 2      \* concurrent /stream requests in ConcSpec
MaxBranch == 2      \* longest sub-task list the gateway returns
MaxNodes  == 3      \* SUB nodes one observed run may create
ConcNodes == 0      \* SUB nodes one run may create in ConcSpec
MaxChunks == 1      \* increments one streaming call yields
MaxCtx    == 5      \* longest running context given to prune_context
MaxLimit  == 3      \* largest limit given to prune_context (4000 scaled down)
MaxLoads  == 1      \* load_model calls in LockSpec
DetNodes  == 1      \* SUB nodes a run of DetSpec may create
MaxSessions == 3    \* create_session calls in StoreSpec
MaxOps    == 5      \* store operations in StoreSpec

(***************************************************************************)
(* Program constants.                                                      *)
(***************************************************************************)
MAX_DEPTH == 3

Runs == 1 .. NumRuns
None == "None"
KnownSession == "s1"
UnknownSession == "s0"

\* the root task text is <<>>; the i-th sub-task of task t is Append(t, i)
Node(d, t, ty) == [depth |-> d, task |-> t, type |-> ty]
NoItem == Node(0, <<>>, "NONE")

(***************************************************************************)
(* msg(t, c, tgt): one event of the stream.  `content` names the text      *)
(* template, `arg` the value interpolated into it, `depth` the depth of    *)
(* the "[>>..] D<depth>" prefix (0: no prefix), target is None when tgt is *)
(* omitted.                                                                *)
(***************************************************************************)
msg_null(t, c, a, d, tgt) ==
    [type |-> t, content |-> c, arg |-> a, depth |-> d, target |-> None]

msg(t, c, a, d, tgt) ==
    [type |-> t, content |-> c, arg |-> a, depth |-> d, target |-> tgt]

Emit(r, es) ==
    events' = [events EXCEPT ![r] = IF observed THEN @ \o es ELSE @]

Set(f, r, x) == [f EXCEPT ![r] = x]

\* run r enters create_completion at call site `site`
Called(r, site) ==
    calls' = [calls EXCEPT ![r] = IF observed THEN Append(@, site) ELSE @]

PromptNames == <<"p1", "p2", "p3", "p4">>
\* the text of run r's request; the runs of a deterministic gateway (DetSpec)
\* carry the same text
Prompt(r) == IF deterministic THEN PromptNames[1] ELSE PromptNames[r]

\* a gateway result: absent (None) or a completion carrying a text
NoRes == [some |-> FALSE, text |-> None]
Res(t) == [some |-> TRUE, text |-> t]

(***************************************************************************)
(* Texts the gateway may answer with, by call site.  A YES/NO answer is    *)
(* the set of the tokens its upper-cased text contains; a goal/plan text   *)
(* is a sequence of phrases; a split answer is classified by what          *)
(* re.search and json.loads make of it.                                    *)
(***************************************************************************)
AnswerTexts == SUBSET {"YES", "NO"}
PhraseTexts == {<<>>, <<"Response:">>, <<"sorry">>, <<"Response:", "goal">>}
\* lists of strings of every length up to n, and one list holding a non-string
SplitLists(n) ==
    {[kind |-> "list", elems |-> [i \in 1 .. k |-> "str"]] : k \in 0 .. n}
        \cup {[kind |-> "list", elems |-> <<"num">>] : k \in 1 .. (IF n > 0 THEN 1 ELSE 0)}
SplitTexts(n) ==
    {[kind |-> "nomatch", elems |-> <<>>], [kind |-> "badjson", elems |-> <<>>]}
        \cup SplitLists(n)

\* how many more SUB nodes the gateway may still ask run r to create
Budget(r) ==
    LET cap == IF deterministic THEN DetNodes
               ELSE IF observed THEN MaxNodes ELSE ConcNodes
        left == cap - created[r]
    IN IF left < MaxBranch THEN left ELSE MaxBranch

DecompTexts(r) ==
    CASE pc[r] \in {"router", "single"} -> AnswerTexts
      [] pc[r] \in {"what", "how"} -> PhraseTexts
      [] pc[r] = "split" -> SplitTexts(Budget(r))
      [] OTHER -> {}

(***************************************************************************)
(* The gateway as a function of the prompt.  When `deterministic` holds,   *)
(* two runs are compared: what the gateway answers to a prompt of run 1 is *)
(* what it answers to the same prompt of run 2.  `memo` keeps, per call    *)
(* site, the answer given to run 1 that run 2 has not asked for yet.  The   *)
(* sampling                                                                *)
(* parameters are constants of the call site; the requests of the model    *)
(* set no temperature, so the streaming call of MAS.py runs at its default.*)
(***************************************************************************)
LastN(s, n) == IF Len(s) <= n THEN s ELSE SubSeq(s, Len(s) - n + 1, Len(s))

Sites == {"router", "what", "how", "single", "split", "leaf",
          "selector", "facts", "deep", "topology", "blueprint", "alpha", "beta",
          "verdict", "exec", "sim", "repair", "audit"}
NoMemo == [s \in Sites |-> {}]

\* the values process_pipeline interpolates into the prompt of a call site
DKey(task, gc, w, h) == [task |-> task, gc |-> gc, w |-> w, h |-> h]
PKey(c, b, plan, hist, resp, l) ==
    [cfs |-> c, feb |-> b, plan |-> plan, hist |-> hist, resp |-> resp, logs |-> l]
PromptParts(r, site) ==
    CASE site = "router" -> DKey(item[r].task, <<>>, <<>>, <<>>)              \* L127
      [] site = "what" -> DKey(item[r].task, global_context[r], <<>>, <<>>)   \* L142
      [] site = "how" -> DKey(item[r].task, <<>>, val_w[r], <<>>)             \* L150
      [] site = "single" -> DKey(<<>>, <<>>, <<>>, val_h[r])                  \* L160
      [] site = "split" -> DKey(<<>>, <<>>, val_w[r], val_h[r])               \* L168
      [] site = "leaf" ->                                                      \* L188
            DKey(item[r].task, global_context[r], val_w[r], val_h[r])
      [] site \in {"selector", "facts", "topology"} ->          \* MAS.py L95, L125, L136
            PKey("", "", "", <<>>, <<>>, "")
      [] site \in {"deep", "blueprint"} ->                      \* MAS.py L131, L141
            PKey(cfs[r], "", "", <<>>, <<>>, "")
      [] site \in {"alpha", "beta", "verdict"} ->               \* MAS.py L151-155
            PKey("", feb[r], "", <<>>, <<>>, "")
      [] site = "exec" ->                                       \* MAS.py L113-116, L163
            PKey("", "", final_plan[r], LastN(sessions[req[r].session_id], 4),
                 <<>>, "")
      [] site \in {"sim", "audit"} ->                           \* MAS.py L177, L191
            PKey("", "", "", <<>>, full_resp[r], "")
      [] site = "repair" ->                                     \* MAS.py L183
            PKey("", "", "", <<>>, full_resp[r], logs[r])

\* the prompt with the ordinal of the request in it, as a bug would have it
PromptOf_numbered(r, site) ==
    [text |-> PromptNames[r], parts |-> PromptParts(r, site)]

\* the prompt of run r at a call site
PromptOf(r, site) ==
    [text |-> Prompt(r), parts |-> PromptParts(r, site)]

IsPrefix(s, t) == Len(s) <= Len(t) /\ SubSeq(t, 1, Len(s)) = s

\* process_pipeline has returned or raised
Ended(r) == pc[r] \in {"done", "returned", "raised"}

\* run 1 asks first; run 2 is the run compared with it
NonePending == \A s \in Sites : memo[s] = {}
Match(r, site) == {e \in memo[site] : e.key = PromptOf(r, site)}
MayAsk(r) == IF r = 1 THEN NonePending ELSE ~NonePending \/ Ended(1)

\* the gateway answers run r's prompt at `site` with t: an answer to run 1 is
\* kept until run 2 has asked; run 2 is given the answer kept for its prompt,
\* and any answer when its prompt is not one that run 1 has asked
Answered(r, site, t) ==
    IF ~deterministic
      THEN UNCHANGED memo
      ELSE /\ MayAsk(r)
           /\ IF r = 1
                THEN memo' = [memo EXCEPT ![site] =
                                 {[key |-> PromptOf(r, site), res |-> t]}]
                ELSE /\ Match(r, site) # {} =>
                            [key |-> PromptOf(r, site), res |-> t] \in Match(r, site)
                     /\ memo' = NoMemo

\* the outcome of a stream: its increments, and whether it ended in an error
Streamed(chunks, err) == [chunks |-> chunks, error |-> err]
\* the stream of run r at `site` may have yielded `chunks` so far
StreamAllowed(r, site, chunks) ==
    (deterministic /\ r # 1) =>
        /\ MayAsk(r)
        /\ \A e \in Match(r, site) : IsPrefix(chunks, e.res.chunks)

(***************************************************************************)
(* CoreEngine.inference of MultiAgentSystem.py                             *)
(***************************************************************************)
\* entering "with ENGINE.lock" without waiting for the holder, as a bug would
CanAcquire_unguarded(l) == TRUE

\* threading.Lock (L19): "with self.lock" proceeds only when the lock is free
CanAcquire(l) == l = 0

\* L70: if not self.model: return None  (before the lock is taken); while
\* load_model has deleted the attribute the read raises AttributeError
InferenceCheck(r) ==
    /\ program = "decomp"
    /\ phase[r] = "call"
    /\ CASE model = "none" ->
              /\ res' = Set(res, r, NoRes)
              /\ phase' = Set(phase, r, "ret")
              /\ UNCHANGED <<pc, raised>>
         [] model = "loaded" ->
              /\ phase' = Set(phase, r, "wait")
              /\ UNCHANGED <<res, pc, raised>>
         [] model = "missing" ->
              /\ raised' = Set(raised, r, "AttributeError")
              /\ pc' = Set(pc, r, "raised")
              /\ phase' = Set(phase, r, "-")
              /\ UNCHANGED res
    /\ UNCHANGED <<pruneVars, storeVars, loadVars, gateVars, engineVars, req, decompVars, pipeVars, obsVars>>

\* L71: with self.lock, L73: create_completion starts; self.model is read
\* again here, and a load that failed meanwhile has left no attribute: the
\* AttributeError leaves the with block (the lock is free again) and ends
\* the run
InferenceAcquire(r) ==
    /\ program = "decomp"
    /\ phase[r] = "wait"
    /\ CanAcquire(lock)
    /\ IF model = "missing"
         THEN /\ raised' = Set(raised, r, "AttributeError")
              /\ pc' = Set(pc, r, "raised")
              /\ phase' = Set(phase, r, "-")
              /\ UNCHANGED <<lock, inflight, calls>>
         ELSE /\ lock' = r
              /\ inflight' = inflight \cup {r}
              /\ phase' = Set(phase, r, "run")
              /\ Called(r, pc[r])
              /\ UNCHANGED <<pc, raised>>
    /\ UNCHANGED <<pruneVars, storeVars, loadVars, gateVars, program, model, sessions, req, res, decompVars, pipeVars,
                   events, popped, iter, created, observed>>

\* L73-79: create_completion returns, the lock is released
InferenceReturn(r) ==
    /\ program = "decomp"
    /\ phase[r] = "run"
    /\ \E t \in DecompTexts(r) :
          /\ res' = Set(res, r, Res(t))
          /\ Answered(r, pc[r], t)
    /\ lock' = 0
    /\ inflight' = inflight \ {r}
    /\ phase' = Set(phase, r, "ret")
    /\ UNCHANGED <<pruneVars, storeVars, loadVars, deterministic, verdicts, program, model, sessions, req, pc, decompVars, pipeVars,
                   raised, obsVars>>

(***************************************************************************)
(* process_pipeline of MultiAgentSystem.py                                 *)
(***************************************************************************)
\* clean_resp, L90-96: quotes and the "bad" phrases are removed, then strip()
BadPhrases == {"SYSTEM:", "GLOBAL CONTEXT:", "Instruction:", "Context:", "Response:"}
IsGood(p) == p \notin BadPhrases
clean_resp(text) == SelectSeq(text, IsGood)

HasPhrase(text, p) == \E i \in 1 .. Len(text) : text[i] = p

NoIter == [split |-> "none", executed |-> FALSE, error |-> FALSE, pushed |-> 0]

\* one fragment of global_context
Fragment(k, t, x) == [kind |-> k, task |-> t, text |-> x]

\* L104-108: the last six Turns of the session open the running context
HistoryContext(h) ==
    [i \in 1 .. Len(LastN(h, 6)) |-> Fragment("history", <<>>, LastN(h, 6)[i].content)]

Unset == <<"unset">>

\* L84-85 with the session looked up after the first yield, as a bug would
\* have it
NoSessionEvents_status == <<msg("status", "Initializing", <<>>, 0, None)>>

\* L85 (MAS.py L85): "if not sess: return" comes before every yield
NoSessionEvents == <<>>

\* L84-85, L102-110
Begin(r) ==
    /\ program = "decomp"
    /\ pc[r] = "start"
    /\ IF req[r].session_id \notin DOMAIN sessions
         THEN /\ pc' = Set(pc, r, "returned")
              /\ Emit(r, NoSessionEvents)
              /\ UNCHANGED <<task_stack, global_context>>
         ELSE /\ pc' = Set(pc, r, "loop")
              /\ Emit(r, <<msg("status", "Initializing", <<>>, 0, None)>>)
              /\ global_context' = Set(global_context, r,
                                       HistoryContext(sessions[req[r].session_id]))
              /\ task_stack' = Set(task_stack, r, <<Node(1, <<>>, "MAIN")>>)
    /\ UNCHANGED <<pruneVars, storeVars, loadVars, gateVars, engineVars, req, phase, res, item, is_complex, val_w, val_h,
                   val_i, content_chunk, pipeVars, raised, popped, iter, created,
                   calls, observed>>

Top(s) == s[Len(s)]
Rest(s) == SubSeq(s, 1, Len(s) - 1)

\* L120-123 with the card forgotten, as a bug would have it
ResumeEvents_nocard(it) ==
    << msg("status", "Context Aggregation", <<>>, it.depth, None) >>

\* L120-123: what popping a RESUME item emits
ResumeEvents(it) ==
    << msg("status", "Context Aggregation", <<>>, it.depth, None),
       msg("card", "Sub-tasks completed for", it.task, it.depth, "Context") >>

\* L113-125: pop; a RESUME item only reports, any other item is analysed.
\* is_complex, val_w, val_h, val_i and content_chunk are assigned anew before
\* they are read in every iteration: they start each iteration unset.
Pop(r) ==
    /\ program = "decomp"
    /\ pc[r] = "loop"
    /\ task_stack[r] # <<>>
    /\ LET it == Top(task_stack[r]) IN
        /\ item' = Set(item, r, it)
        /\ task_stack' = Set(task_stack, r, Rest(task_stack[r]))
        /\ popped' = Set(popped, r, IF observed THEN Append(popped[r], it)
                                                ELSE popped[r])
        /\ IF it.type = "RESUME"
             THEN /\ Emit(r, ResumeEvents(it))
                  /\ UNCHANGED <<pc, phase>>
             ELSE /\ Emit(r, <<msg("status", "WHI Analysis", <<>>, it.depth, None)>>)
                  /\ pc' = Set(pc, r, "router")
                  /\ phase' = Set(phase, r, "call")
    /\ iter' = Set(iter, r, NoIter)
    /\ calls' = Set(calls, r, <<>>)
    /\ is_complex' = Set(is_complex, r, TRUE)
    /\ val_w' = Set(val_w, r, Unset)
    /\ val_h' = Set(val_h, r, Unset)
    /\ val_i' = Set(val_i, r, "unset")
    /\ content_chunk' = Set(content_chunk, r, <<>>)
    /\ UNCHANGED <<pruneVars, storeVars, loadVars, gateVars, engineVars, req, res, global_context, pipeVars, raised,
                   created, observed>>

\* L129
IsComplex(rs) == IF rs.some THEN "YES" \in rs.text ELSE TRUE

WhiCards(d, i) ==
    << msg("card", "W", <<>>, d, "WHI"),
       msg("card", "H", <<>>, d, "WHI"),
       msg("card", i, <<>>, d, "WHI") >>

\* L129-139: the router's verdict; the simple path sets the placeholders
RouterDone(r) ==
    /\ program = "decomp"
    /\ pc[r] = "router"
    /\ phase[r] = "ret"
    /\ is_complex' = Set(is_complex, r, IsComplex(res[r]))
    /\ verdicts' = [verdicts EXCEPT ![r] =
            IF deterministic
              THEN Append(@, [task |-> item[r].task, complex |-> IsComplex(res[r])])
              ELSE @]
    /\ IF ~IsComplex(res[r])
         THEN /\ val_w' = Set(val_w, r, <<"Chat with user">>)
              /\ val_h' = Set(val_h, r, <<"Reply naturally">>)
              /\ val_i' = Set(val_i, r, "YES")
              /\ Emit(r, WhiCards(item[r].depth, "I: YES"))
              /\ pc' = Set(pc, r, "decide")
              /\ phase' = Set(phase, r, "-")
         ELSE /\ pc' = Set(pc, r, "what")
              /\ phase' = Set(phase, r, "call")
              /\ UNCHANGED <<val_w, val_h, val_i, events>>
    /\ res' = Set(res, r, NoRes)
    /\ UNCHANGED <<pruneVars, storeVars, loadVars, deterministic, memo, engineVars, req, task_stack, item, content_chunk,
                   global_context, pipeVars, raised, popped, iter, created,
                   calls, observed>>

\* L143-144 without the fallback of L145-146, as a bug would have it
Goal_nofallback(rs) == IF rs.some THEN clean_resp(rs.text) ELSE <<>>

\* L143-146
Goal(rs) ==
    LET w == IF rs.some THEN clean_resp(rs.text) ELSE <<>>
    IN IF w = <<>> \/ HasPhrase(w, "sorry") \/ HasPhrase(w, "understand")
         THEN <<"Execute task">> ELSE w

\* L152-154
Plan(rs) ==
    LET h == IF rs.some THEN clean_resp(rs.text) ELSE <<>>
    IN IF h = <<>> THEN <<"Execute immediately">> ELSE h

\* L141-150
WhatDone(r) ==
    /\ program = "decomp"
    /\ pc[r] = "what"
    /\ phase[r] = "ret"
    /\ val_w' = Set(val_w, r, Goal(res[r]))
    /\ Emit(r, <<msg("card", "W", <<>>, item[r].depth, "WHI")>>)
    /\ pc' = Set(pc, r, "how")
    /\ phase' = Set(phase, r, "call")
    /\ res' = Set(res, r, NoRes)
    /\ UNCHANGED <<pruneVars, storeVars, loadVars, gateVars, engineVars, req, task_stack, item, is_complex, val_h, val_i,
                   content_chunk, global_context, pipeVars, raised, popped, iter,
                   created, calls, observed>>

\* L159 with the comparison turned around, as a bug would have it
MayAskSingleStep_le(depth) == depth <= MAX_DEPTH

\* L159: if depth < MAX_DEPTH
MayAskSingleStep(depth) == depth < MAX_DEPTH

\* L152-161, and L164 when the single-step question is not asked
HowDone(r) ==
    /\ program = "decomp"
    /\ pc[r] = "how"
    /\ phase[r] = "ret"
    /\ val_h' = Set(val_h, r, Plan(res[r]))
    /\ val_i' = Set(val_i, r, "YES")
    /\ IF MayAskSingleStep(item[r].depth)
         THEN /\ Emit(r, <<msg("card", "H", <<>>, item[r].depth, "WHI")>>)
              /\ pc' = Set(pc, r, "single")
              /\ phase' = Set(phase, r, "call")
         ELSE /\ Emit(r, << msg("card", "H", <<>>, item[r].depth, "WHI"),
                            msg("card", "I: YES", <<>>, item[r].depth, "WHI") >>)
              /\ pc' = Set(pc, r, "decide")
              /\ phase' = Set(phase, r, "-")
    /\ res' = Set(res, r, NoRes)
    /\ UNCHANGED <<pruneVars, storeVars, loadVars, gateVars, engineVars, req, task_stack, item, is_complex, val_w,
                   content_chunk, global_context, pipeVars, raised, popped, iter,
                   created, calls, observed>>

\* L162
SingleStep(rs) == IF rs.some /\ "NO" \in rs.text THEN "NO" ELSE "YES"

\* L162-164
SingleDone(r) ==
    /\ program = "decomp"
    /\ pc[r] = "single"
    /\ phase[r] = "ret"
    /\ val_i' = Set(val_i, r, SingleStep(res[r]))
    /\ Emit(r, <<msg("card", IF SingleStep(res[r]) = "NO" THEN "I: NO" ELSE "I: YES",
                     <<>>, item[r].depth, "WHI")>>)
    /\ pc' = Set(pc, r, "decide")
    /\ phase' = Set(phase, r, "-")
    /\ res' = Set(res, r, NoRes)
    /\ UNCHANGED <<pruneVars, storeVars, loadVars, gateVars, engineVars, req, task_stack, item, is_complex, val_w, val_h,
                   content_chunk, global_context, pipeVars, raised, popped, iter,
                   created, calls, observed>>

\* L166-170 and the test of L185 when no split was tried
Decide(r) ==
    /\ program = "decomp"
    /\ pc[r] = "decide"
    /\ IF val_i[r] = "NO"
         THEN /\ Emit(r, <<msg("status", "COMPLEX. Splitting", <<>>, item[r].depth, None)>>)
              /\ pc' = Set(pc, r, "split")
              /\ phase' = Set(phase, r, "call")
         ELSE /\ pc' = Set(pc, r, "leaf")
              /\ UNCHANGED <<phase, events>>
    /\ UNCHANGED <<pruneVars, storeVars, loadVars, gateVars, engineVars, req, res, decompVars, pipeVars, raised, popped,
                   iter, created, calls, observed>>

\* L174: re.search(r'\[.*\]', txt, re.DOTALL) finds a bracketed span
HasArray(txt) == txt.kind # "nomatch"
\* L176: json.loads(match.group()) returns a list instead of raising
Parses(txt) == txt.kind = "list"
\* L180: "\n".join(sub_tasks) accepts a list of strings only
Joins(sub_tasks) == \A i \in 1 .. Len(sub_tasks) : sub_tasks[i] = "str"

\* L177-179 with the sub-tasks pushed in list order, as a bug would have it
PushSplit_unreversed(stack, depth, task, n) ==
    stack \o <<Node(depth, task, "RESUME")>>
          \o [i \in 1 .. n |-> Node(depth + 1, Append(task, i), "SUB")]

\* L177-179 with the RESUME item forgotten, as a bug would have it
PushSplit_noresume(stack, depth, task, n) ==
    stack \o [i \in 1 .. n |-> Node(depth + 1, Append(task, n + 1 - i), "SUB")]

\* L177-179: the RESUME item, then the sub-tasks in reverse
PushSplit(stack, depth, task, n) ==
    stack \o <<Node(depth, task, "RESUME")>>
          \o [i \in 1 .. n |-> Node(depth + 1, Append(task, n + 1 - i), "SUB")]

\* what the try block of L172-183 made of the split answer
SplitOutcome(rs) ==
    IF ~rs.some THEN "absent"
    ELSE IF ~HasArray(rs.text) THEN "nomatch"
    ELSE IF ~Parses(rs.text) THEN "badjson"
    ELSE IF ~Joins(rs.text.elems) THEN "nonstr"
    ELSE "list"

\* L172-183, and the test of L185 that follows the try block
SplitDone(r) ==
    /\ program = "decomp"
    /\ pc[r] = "split"
    /\ phase[r] = "ret"
    /\ LET o == SplitOutcome(res[r])
           n == IF o \in {"list", "nonstr"} THEN Len(res[r].text.elems) ELSE 0
       IN
        /\ IF o \in {"list", "nonstr"}
             THEN /\ task_stack' = Set(task_stack, r,
                        PushSplit(task_stack[r], item[r].depth, item[r].task, n))
                  /\ created' = Set(created, r, created[r] + n)
             ELSE UNCHANGED <<task_stack, created>>
        /\ iter' = Set(iter, r, [iter[r] EXCEPT !.split = o,
                        !.pushed = IF o \in {"list", "nonstr"} THEN n + 1 ELSE 0])
        /\ IF o = "list"
             THEN Emit(r, <<msg("card", "sub_tasks", item[r].task, item[r].depth,
                                "Split Plan")>>)
             ELSE UNCHANGED events
        \* an exception in the try block sets val_i = "YES" (L182-183)
        /\ val_i' = Set(val_i, r, IF o \in {"absent", "badjson", "nonstr"}
                                    THEN "YES" ELSE val_i[r])
        \* L181 continue; else L185: if val_i == "YES"
        /\ pc' = Set(pc, r, IF o \in {"absent", "badjson", "nonstr"}
                              THEN "leaf" ELSE "loop")
    /\ phase' = Set(phase, r, "-")
    /\ res' = Set(res, r, NoRes)
    /\ UNCHANGED <<pruneVars, storeVars, loadVars, gateVars, engineVars, req, item, is_complex, val_w, val_h, content_chunk,
                   global_context, pipeVars, raised, popped, calls, observed>>

\* L186-188
LeafStart(r) ==
    /\ program = "decomp"
    /\ pc[r] = "leaf"
    /\ Emit(r, <<msg("status", "CLEAR. Executing", <<>>, item[r].depth, None)>>)
    /\ pc' = Set(pc, r, "leaf_lock")
    /\ UNCHANGED <<pruneVars, storeVars, loadVars, gateVars, engineVars, req, phase, res, decompVars, pipeVars, raised,
                   popped, iter, created, calls, observed>>

\* L190: with ENGINE.lock
LeafAcquire(r) ==
    /\ program = "decomp"
    /\ pc[r] = "leaf_lock"
    /\ CanAcquire(lock)
    /\ lock' = r
    /\ pc' = Set(pc, r, "leaf_create")
    /\ UNCHANGED <<pruneVars, storeVars, loadVars, gateVars, program, model, inflight, sessions, req, phase, res, decompVars,
                   pipeVars, raised, obsVars>>

\* L191-199: ENGINE.model.create_completion(..., stream=True); with no model
\* loaded ENGINE.model is None and the attribute access raises AttributeError,
\* which leaves the with block (releasing the lock) and the generator
LeafCreate(r) ==
    /\ program = "decomp"
    /\ pc[r] = "leaf_create"
    /\ IF model # "loaded"
         THEN /\ raised' = Set(raised, r, "AttributeError")
              /\ lock' = 0
              /\ pc' = Set(pc, r, "raised")
              /\ UNCHANGED <<inflight, content_chunk, iter, calls>>
         ELSE /\ inflight' = inflight \cup {r}
              /\ Called(r, "leaf")
              /\ content_chunk' = Set(content_chunk, r, <<>>)
              /\ iter' = Set(iter, r, [iter[r] EXCEPT !.executed = TRUE])
              /\ pc' = Set(pc, r, "stream")
              /\ UNCHANGED <<lock, raised>>
    /\ UNCHANGED <<pruneVars, storeVars, loadVars, gateVars, program, model, sessions, req, phase, res, task_stack, item,
                   is_complex, val_w, val_h, val_i, global_context, pipeVars,
                   events, popped, created, observed>>

\* the text of the k-th increment of a leaf stream
ChunkText(k) == <<"t1", "t2", "t3", "t4">>[k]
\* increments a leaf stream may yield: one more for an unsplit root request
LeafLimit(it) == IF it.type = "MAIN" THEN MaxChunks + 1 ELSE MaxChunks

\* L201-204 with the increment emitted but not kept, as a bug would have it
LeafChunk_unkept(r) ==
    /\ program = "decomp"
    /\ pc[r] = "stream"
    /\ Len(content_chunk[r]) < LeafLimit(item[r])
    /\ StreamAllowed(r, "leaf",
                     Append(content_chunk[r], ChunkText(Len(content_chunk[r]) + 1)))
    /\ content_chunk' = Set(content_chunk, r, <<ChunkText(Len(content_chunk[r]) + 1)>>)
    /\ Emit(r, <<msg("token", ChunkText(Len(content_chunk[r]) + 1), <<>>, 0, None)>>)
    /\ UNCHANGED <<pruneVars, storeVars, loadVars, gateVars, engineVars, req, pc, phase, res, task_stack, item, is_complex,
                   val_w, val_h, val_i, global_context, pipeVars, raised, popped,
                   iter, created, calls, observed>>

\* L201-204: one increment
LeafChunk(r) ==
    /\ program = "decomp"
    /\ pc[r] = "stream"
    /\ Len(content_chunk[r]) < LeafLimit(item[r])
    /\ StreamAllowed(r, "leaf",
                     Append(content_chunk[r], ChunkText(Len(content_chunk[r]) + 1)))
    /\ content_chunk' = Set(content_chunk, r,
            Append(content_chunk[r], ChunkText(Len(content_chunk[r]) + 1)))
    /\ Emit(r, <<msg("token", ChunkText(Len(content_chunk[r]) + 1), <<>>, 0, None)>>)
    /\ UNCHANGED <<pruneVars, storeVars, loadVars, gateVars, engineVars, req, pc, phase, res, task_stack, item, is_complex,
                   val_w, val_h, val_i, global_context, pipeVars, raised, popped,
                   iter, created, calls, observed>>

\* L208
Transcript(gc, task, chunk) == Append(gc, Fragment("leaf", task, chunk))

\* L201, L208: the stream is exhausted; the lock is released, the transcript kept
LeafEnd(r) ==
    /\ program = "decomp"
    /\ pc[r] = "stream"
    /\ lock' = 0
    /\ inflight' = inflight \ {r}
    /\ global_context' = Set(global_context, r,
            Transcript(global_context[r], item[r].task, content_chunk[r]))
    /\ Answered(r, "leaf", Streamed(content_chunk[r], FALSE))
    /\ pc' = Set(pc, r, "loop")
    /\ UNCHANGED <<pruneVars, storeVars, loadVars, deterministic, verdicts, program, model, sessions, req, phase, res, task_stack, item,
                   is_complex, val_w, val_h, val_i, content_chunk, pipeVars,
                   raised, obsVars>>

\* L205-206 without the except clause, as a bug would have it: the error
\* leaves the with block and the generator
LeafError_uncaught(r) ==
    /\ program = "decomp"
    /\ pc[r] = "stream"
    /\ iter' = Set(iter, r, [iter[r] EXCEPT !.error = TRUE])
    /\ raised' = Set(raised, r, "StreamError")
    /\ lock' = 0
    /\ inflight' = inflight \ {r}
    /\ Answered(r, "leaf", Streamed(content_chunk[r], TRUE))
    /\ pc' = Set(pc, r, "raised")
    /\ UNCHANGED <<pruneVars, storeVars, loadVars, deterministic, verdicts, program, model, sessions, req, phase, res, decompVars, pipeVars,
                   events, popped, created, calls, observed>>

\* L205-208: the stream raises; the error becomes one token, then as LeafEnd
LeafError(r) ==
    /\ program = "decomp"
    /\ pc[r] = "stream"
    /\ Emit(r, <<msg("token", "Error", <<>>, 0, None)>>)
    /\ iter' = Set(iter, r, [iter[r] EXCEPT !.error = TRUE])
    /\ lock' = 0
    /\ inflight' = inflight \ {r}
    /\ global_context' = Set(global_context, r,
            Transcript(global_context[r], item[r].task, content_chunk[r]))
    /\ Answered(r, "leaf", Streamed(content_chunk[r], TRUE))
    /\ pc' = Set(pc, r, "loop")
    /\ UNCHANGED <<pruneVars, storeVars, loadVars, deterministic, verdicts, program, model, sessions, req, phase, res, task_stack, item,
                   is_complex, val_w, val_h, val_i, content_chunk, pipeVars,
                   raised, popped, created, calls, observed>>

(***************************************************************************)
(* prune_context, L98-100.  A text is a sequence of characters; the        *)
(* truncation marker "...(truncated)\n" is one element of its own.         *)
(***************************************************************************)
Marker == "...(truncated)"

\* Python's s[-(k):]: the last k elements; all of s when k = 0 or k >= len(s)
LastChars(s, k) ==
    IF k = 0 \/ k >= Len(s) THEN s ELSE SubSeq(s, Len(s) - k + 1, Len(s))

\* L99 with >= for >, as a bug would have it
prune_context_ge(c, l) ==
    IF Len(c) >= l THEN <<Marker>> \o LastChars(c, l) ELSE c

\* L98-100
prune_context(c, l) ==
    IF Len(c) > l THEN <<Marker>> \o LastChars(c, l) ELSE c

NotPruned == [returned |-> FALSE, text |-> <<>>]

\* one call of prune_context on the arguments drawn by PruneInit
Prune ==
    /\ ~pruned.returned
    /\ pruned' = [returned |-> TRUE, text |-> prune_context(ctx, limit)]
    /\ UNCHANGED <<engineVars, req, pc, phase, res, decompVars, pipeVars, raised,
                   obsVars, ctx, limit, storeVars, gateVars, loadVars>>

(***************************************************************************)
(* CoreEngine.load_model, L35-48 (the same lines in MAS.py), called by the *)
(* /load_model route on a thread of its own.  `model` is "none" for the    *)
(* None of L17, "loaded" for a Llama object, and "missing" while the       *)
(* instance has no attribute `model` (after the del of L38).               *)
(***************************************************************************)
\* the lock holder's name for the loading thread
Loader == NumRuns + 1

\* the route is called (llama_cpp is installed: L36 does not return)
LoadCall ==
    /\ loader = "idle"
    /\ loads < MaxLoads
    /\ loader' = "wait"
    /\ UNCHANGED <<engineVars, req, pc, phase, res, decompVars, pipeVars, raised,
                   obsVars, pruneVars, storeVars, gateVars, loads>>

\* L37: with self.lock
LoadAcquire ==
    /\ loader = "wait"
    /\ CanAcquire(lock)
    /\ lock' = Loader
    /\ loader' = "held"
    /\ UNCHANGED <<program, model, inflight, sessions, req, pc, phase, res,
                   decompVars, pipeVars, raised, obsVars, pruneVars, storeVars,
                   gateVars, loads>>

\* L38: if self.model: del self.model.  The test itself raises when an
\* earlier load has left no attribute; the with block then frees the lock.
LoadDelete ==
    /\ loader = "held"
    /\ CASE model = "loaded" ->
              /\ model' = "missing"
              /\ loader' = "construct"
              /\ UNCHANGED <<lock, loads>>
         [] model = "none" ->
              /\ loader' = "construct"
              /\ UNCHANGED <<model, lock, loads>>
         [] model = "missing" ->
              /\ lock' = 0
              /\ loader' = "idle"
              /\ loads' = loads + 1
              /\ UNCHANGED model
    /\ UNCHANGED <<program, inflight, sessions, req, pc, phase, res, decompVars,
                   pipeVars, raised, obsVars, pruneVars, storeVars, gateVars>>

\* L39-47: Llama(...) returns a model, or raises (no such file, bad format)
\* and self.model stays as L38 left it; either way the lock is freed
LoadConstruct ==
    /\ loader = "construct"
    /\ \/ model' = "loaded"
       \/ UNCHANGED model
    /\ lock' = 0
    /\ loader' = "idle"
    /\ loads' = loads + 1
    /\ UNCHANGED <<program, inflight, sessions, req, pc, phase, res, decompVars,
                   pipeVars, raised, obsVars, pruneVars, storeVars, gateVars>>

LoadStep == LoadAcquire \/ LoadDelete \/ LoadConstruct

(***************************************************************************)
(* The session store of CoreEngine, L50-67 (the same lines in MAS.py).     *)
(* ENGINE.sessions is a dict: `sessions` gives the history of each key,    *)
(* `created_at` its "created" stamp and `order` the keys in dict order.     *)
(***************************************************************************)
\* uuid.uuid4() (L51): ids never repeat
UUIDs == <<"u1", "u2", "u3", "u4", "u5">>

\* the session object stored under uid
Session(S, C, uid) == [id |-> uid, history |-> S[uid], created |-> C[uid]]
NoSession == [id |-> None, history |-> <<>>, created |-> 0]

NoRet == [op |-> "none", arg |-> None, n |-> 0, found |-> FALSE,
          sess |-> NoSession, listing |-> <<>>]

\* a gateway that is free to answer a prompt differently each time
GateIdle ==
    /\ deterministic = FALSE
    /\ memo = NoMemo
    /\ verdicts = [r \in Runs |-> <<>>]

\* the store of the runs' specifications: one session, created at time 0
StoreIdle ==
    /\ created_at = [s \in {KnownSession} |-> 0]
    /\ order = <<KnownSession>>
    /\ clock = 0
    /\ issued = {KnownSession}
    /\ ret = NoRet

\* sorted(..., key=created) without reverse=True, as a bug would have it:
\* x goes after the elements whose stamp is not later than its own
Insert_ascending(out, x) ==
    LET p == Cardinality({i \in 1 .. Len(out) : out[i].created <= x.created})
    IN SubSeq(out, 1, p) \o <<x>> \o SubSeq(out, p + 1, Len(out))

\* L64: sorted(..., key=created, reverse=True) is stable: x goes after the
\* elements of the sorted prefix whose stamp is not earlier than its own
Insert(out, x) ==
    LET p == Cardinality({i \in 1 .. Len(out) : out[i].created >= x.created})
    IN SubSeq(out, 1, p) \o <<x>> \o SubSeq(out, p + 1, Len(out))

RECURSIVE Sorted(_)
Sorted(vals) ==
    IF vals = <<>> THEN <<>>
    ELSE Insert(Sorted(SubSeq(vals, 1, Len(vals) - 1)), vals[Len(vals)])

\* L63-64: list_sessions
list_sessions(S, C, ord) == Sorted([i \in 1 .. Len(ord) |-> Session(S, C, ord[i])])

\* L50-58: create_session; time.time() has not gone back, and may not have
\* moved since the session before
CreateSession ==
    /\ ret.n < MaxOps
    /\ Cardinality(issued) < MaxSessions
    /\ \E now \in {clock, clock + 1} :
        LET uid == UUIDs[Cardinality(issued) + 1] IN
          /\ clock' = now
          /\ sessions' = [u \in DOMAIN sessions \cup {uid} |->
                              IF u = uid THEN <<>> ELSE sessions[u]]
          /\ created_at' = [u \in DOMAIN sessions \cup {uid} |->
                              IF u = uid THEN now ELSE created_at[u]]
          /\ order' = Append(order, uid)
          /\ issued' = issued \cup {uid}
          /\ ret' = [NoRet EXCEPT !.op = "create", !.arg = uid, !.n = ret.n + 1]
    /\ UNCHANGED <<program, model, lock, inflight, req, pc, phase, res, decompVars,
                   pipeVars, raised, obsVars, pruneVars, gateVars, loadVars>>

\* L60-61: get_session
GetSession ==
    /\ ret.n < MaxOps
    /\ \E uid \in issued \cup {UnknownSession} :
          ret' = [NoRet EXCEPT !.op = "get", !.arg = uid, !.n = ret.n + 1,
                    !.found = uid \in DOMAIN sessions,
                    !.sess = IF uid \in DOMAIN sessions
                               THEN Session(sessions, created_at, uid) ELSE NoSession]
    /\ UNCHANGED <<engineVars, req, pc, phase, res, decompVars, pipeVars, raised,
                   obsVars, pruneVars, gateVars, loadVars, created_at, order, clock,
                   issued>>

\* L63-64
ListSessions ==
    /\ ret.n < MaxOps
    /\ ret' = [NoRet EXCEPT !.op = "list", !.n = ret.n + 1,
                  !.listing = list_sessions(sessions, created_at, order)]
    /\ UNCHANGED <<engineVars, req, pc, phase, res, decompVars, pipeVars, raised,
                   obsVars, pruneVars, gateVars, loadVars, created_at, order, clock,
                   issued>>

Without(ord, uid) == SelectSeq(ord, LAMBDA u : u # uid)

\* L66-67: delete_session
DeleteSession ==
    /\ ret.n < MaxOps
    /\ \E uid \in issued \cup {UnknownSession} :
          /\ IF uid \in DOMAIN sessions
               THEN /\ sessions' = [u \in DOMAIN sessions \ {uid} |-> sessions[u]]
                    /\ created_at' = [u \in DOMAIN sessions \ {uid} |-> created_at[u]]
                    /\ order' = Without(order, uid)
               ELSE UNCHANGED <<sessions, created_at, order>>
          /\ ret' = [NoRet EXCEPT !.op = "delete", !.arg = uid, !.n = ret.n + 1]
    /\ UNCHANGED <<program, model, lock, inflight, req, pc, phase, res, decompVars,
                   pipeVars, raised, obsVars, pruneVars, gateVars, loadVars, clock,
                   issued>>

Turn(role, content) == [role |-> role, content |-> content]

\* L210-211 with the answer appended as well, as MAS.py does
Finalize_withanswer(r) ==
    /\ program = "decomp"
    /\ pc[r] = "loop"
    /\ task_stack[r] = <<>>
    /\ sessions' = [sessions EXCEPT ![req[r].session_id] =
                        @ \o << Turn("user", <<Prompt(r)>>),
                                Turn("assistant", content_chunk[r]) >>]
    /\ Emit(r, <<msg("done", "Ready", <<>>, 0, None)>>)
    /\ pc' = Set(pc, r, "done")
    /\ UNCHANGED <<pruneVars, storeVars, loadVars, gateVars, program, model, lock, inflight, req, phase, res, decompVars,
                   pipeVars, raised, popped, iter, created, calls, observed>>

\* L210-211
Finalize(r) ==
    /\ program = "decomp"
    /\ pc[r] = "loop"
    /\ task_stack[r] = <<>>
    /\ sessions' = [sessions EXCEPT ![req[r].session_id] =
                        Append(@, Turn("user", <<Prompt(r)>>))]
    /\ Emit(r, <<msg("done", "Ready", <<>>, 0, None)>>)
    /\ pc' = Set(pc, r, "done")
    /\ UNCHANGED <<pruneVars, storeVars, loadVars, gateVars, program, model, lock, inflight, req, phase, res, decompVars,
                   pipeVars, raised, popped, iter, created, calls, observed>>

DecompStep(r) ==
    \/ Begin(r) \/ Pop(r) \/ InferenceCheck(r) \/ InferenceAcquire(r)
    \/ InferenceReturn(r) \/ RouterDone(r) \/ WhatDone(r) \/ HowDone(r)
    \/ SingleDone(r) \/ Decide(r) \/ SplitDone(r) \/ LeafStart(r)
    \/ LeafAcquire(r) \/ LeafCreate(r) \/ LeafChunk(r) \/ LeafEnd(r)
    \/ LeafError(r) \/ Finalize(r)

(***************************************************************************)
(* CoreEngine.inference of MAS.py: no lock is taken                        *)
(***************************************************************************)
Gates == {"facts", "deep", "topology", "debate", "simulation", "audit"}

\* a selector answer holds no parsable {...} span, or parses to a mapping
\* whose true keys are `keys`
SelectorTexts ==
    {[kind |-> "nojson", keys |-> {}]}
        \cup {[kind |-> "dict", keys |-> k] : k \in SUBSET Gates}

PipeTexts(r) ==
    CASE pc[r] = "selector" -> SelectorTexts
      [] pc[r] = "sim" -> {"clean", "Error"}
      [] OTHER -> {"text"}

\* MAS.py L70-73: if not self.model: return None; else create_completion
\* starts; while load_model has deleted the attribute the read raises
PInferenceCall(r) ==
    /\ program = "pipe"
    /\ phase[r] = "call"
    /\ CASE model = "none" ->
              /\ res' = Set(res, r, NoRes)
              /\ phase' = Set(phase, r, "ret")
              /\ UNCHANGED <<inflight, calls, pc, raised>>
         [] model = "loaded" ->
              /\ inflight' = inflight \cup {r}
              /\ Called(r, pc[r])
              /\ phase' = Set(phase, r, "run")
              /\ UNCHANGED <<res, pc, raised>>
         [] model = "missing" ->
              /\ raised' = Set(raised, r, "AttributeError")
              /\ pc' = Set(pc, r, "raised")
              /\ phase' = Set(phase, r, "-")
              /\ UNCHANGED <<res, inflight, calls>>
    /\ UNCHANGED <<pruneVars, storeVars, loadVars, gateVars, program, model, lock, sessions, req, decompVars, pipeVars,
                   events, popped, iter, created, observed>>

\* MAS.py L73-79: create_completion returns
PInferenceReturn(r) ==
    /\ program = "pipe"
    /\ phase[r] = "run"
    /\ \E t \in PipeTexts(r) :
          /\ res' = Set(res, r, Res(t))
          /\ Answered(r, pc[r], t)
    /\ inflight' = inflight \ {r}
    /\ phase' = Set(phase, r, "ret")
    /\ UNCHANGED <<pruneVars, storeVars, loadVars, deterministic, verdicts, program, model, lock, sessions, req, pc, decompVars, pipeVars,
                   raised, obsVars>>

(***************************************************************************)
(* process_pipeline of MAS.py                                              *)
(***************************************************************************)
Status(c) == msg("status", c, <<>>, 0, None)
Log(c) == msg("log", c, <<>>, 0, None)
Card(c, tgt) == msg("card", c, <<>>, 0, tgt)
Token(c) == msg("token", c, <<>>, 0, None)

\* MAS.py L111
DefaultFeats == {"facts", "plan", "simulation"}

\* MAS.py L84-95, and L113-121 when auto mode is off
PBegin(r) ==
    /\ program = "pipe"
    /\ pc[r] = "start"
    /\ IF req[r].session_id \notin DOMAIN sessions
         THEN /\ pc' = Set(pc, r, "returned")
              /\ Emit(r, NoSessionEvents)
              /\ UNCHANGED <<feats, phase>>
         ELSE /\ feats' = Set(feats, r, req[r].manual)
              /\ IF req[r].auto_mode
                   THEN /\ Emit(r, << Status("Initializing"),
                                      Status("Dynamic Protocol Selection") >>)
                        /\ pc' = Set(pc, r, "selector")
                        /\ phase' = Set(phase, r, "call")
                   ELSE /\ Emit(r, << Status("Initializing"),
                                      Status("Apollo Integrity Check") >>)
                        /\ pc' = Set(pc, r, "facts")
                        /\ UNCHANGED phase
    /\ UNCHANGED <<pruneVars, storeVars, loadVars, gateVars, engineVars, req, res, decompVars, cfs, feb, final_plan,
                   full_resp, logs, raised, popped, iter, created, calls, observed>>

\* MAS.py L108 without the "if v" filter, as a bug would have it: the log
\* line lists every key
AutoSelectedLog_everykey(keys) == msg("log", "Auto-Selected", Gates, 0, None)

\* MAS.py L108: the log line lists the keys whose value is true
AutoSelectedLog(keys) == msg("log", "Auto-Selected", keys, 0, None)

\* MAS.py L107 without the assignment of the parsed flags, as a bug would
\* have it: the manual flags stay in force
SelectorDone_keepmanual(r) ==
    /\ program = "pipe"
    /\ pc[r] = "selector"
    /\ phase[r] = "ret"
    /\ IF ~res[r].some
         THEN /\ Emit(r, <<Status("Apollo Integrity Check")>>)
              /\ UNCHANGED feats
         ELSE IF res[r].text.kind = "dict"
         THEN /\ UNCHANGED feats
              /\ Emit(r, << AutoSelectedLog(res[r].text.keys),
                            Status("Apollo Integrity Check") >>)
         ELSE /\ feats' = Set(feats, r, DefaultFeats)
              /\ Emit(r, <<Status("Apollo Integrity Check")>>)
    /\ pc' = Set(pc, r, "facts")
    /\ phase' = Set(phase, r, "-")
    /\ res' = Set(res, r, NoRes)
    /\ UNCHANGED <<pruneVars, storeVars, loadVars, gateVars, engineVars, req, decompVars, cfs, feb, final_plan, full_resp,
                   logs, raised, popped, iter, created, calls, observed>>

\* MAS.py L104-121
SelectorDone(r) ==
    /\ program = "pipe"
    /\ pc[r] = "selector"
    /\ phase[r] = "ret"
    /\ IF ~res[r].some
         THEN /\ Emit(r, <<Status("Apollo Integrity Check")>>)
              /\ UNCHANGED feats
         ELSE IF res[r].text.kind = "dict"
         THEN /\ feats' = Set(feats, r, res[r].text.keys)
              /\ Emit(r, << AutoSelectedLog(res[r].text.keys),
                            Status("Apollo Integrity Check") >>)
         ELSE /\ feats' = Set(feats, r, DefaultFeats)
              /\ Emit(r, <<Status("Apollo Integrity Check")>>)
    /\ pc' = Set(pc, r, "facts")
    /\ phase' = Set(phase, r, "-")
    /\ res' = Set(res, r, NoRes)
    /\ UNCHANGED <<pruneVars, storeVars, loadVars, gateVars, engineVars, req, decompVars, cfs, feb, final_plan, full_resp,
                   logs, raised, popped, iter, created, calls, observed>>

\* the stages made of one gated call and one card: MAS.py L123-138, L189-192
GatedStages == {"facts", "deep", "topology", "audit"}
StageStatus(st) ==
    CASE st = "facts" -> "0.0 Parmenides (Facts)"
      [] st = "deep" -> "14.0 Noesis (Deep Analysis)"
      [] st = "topology" -> "16.0 Utias (Topology)"
      [] st = "audit" -> "29.0 Praetorian (Audit)"
StageTarget(st) ==
    CASE st = "facts" -> "Facts"
      [] st = "deep" -> "Analysis"
      [] st = "topology" -> "Topology"
      [] st = "audit" -> "Audit"
StageAfter(st) ==
    CASE st = "facts" -> "deep"
      [] st = "deep" -> "topology"
      [] st = "topology" -> "blueprint"
      [] st = "audit" -> "final"

\* if feats.get(<stage>): status, then the call
StageStart(r) ==
    /\ program = "pipe"
    /\ pc[r] \in GatedStages
    /\ phase[r] = "-"
    /\ IF pc[r] \in feats[r]
         THEN /\ Emit(r, <<Status(StageStatus(pc[r]))>>)
              /\ phase' = Set(phase, r, "call")
              /\ UNCHANGED pc
         ELSE /\ pc' = Set(pc, r, StageAfter(pc[r]))
              /\ UNCHANGED <<phase, events>>
    /\ UNCHANGED <<pruneVars, storeVars, loadVars, gateVars, engineVars, req, res, decompVars, pipeVars, raised, popped,
                   iter, created, calls, observed>>

\* if r: the card (and cfs for the facts stage, L127)
StageDone(r) ==
    /\ program = "pipe"
    /\ pc[r] \in GatedStages
    /\ phase[r] = "ret"
    /\ IF res[r].some
         THEN /\ Emit(r, <<Card(pc[r], StageTarget(pc[r]))>>)
              /\ cfs' = Set(cfs, r, IF pc[r] = "facts" THEN "facts" ELSE cfs[r])
         ELSE UNCHANGED <<events, cfs>>
    /\ pc' = Set(pc, r, StageAfter(pc[r]))
    /\ phase' = Set(phase, r, "-")
    /\ res' = Set(res, r, NoRes)
    /\ UNCHANGED <<pruneVars, storeVars, loadVars, gateVars, engineVars, req, decompVars, feats, feb, final_plan, full_resp,
                   logs, raised, popped, iter, created, calls, observed>>

\* MAS.py L140-141
BlueprintStart(r) ==
    /\ program = "pipe"
    /\ pc[r] = "blueprint"
    /\ phase[r] = "-"
    /\ Emit(r, <<Status("0-Phase Prometheus (Blueprint)")>>)
    /\ phase' = Set(phase, r, "call")
    /\ UNCHANGED <<pruneVars, storeVars, loadVars, gateVars, engineVars, req, pc, res, decompVars, pipeVars, raised, popped,
                   iter, created, calls, observed>>

\* MAS.py L142-146
BlueprintDone(r) ==
    /\ program = "pipe"
    /\ pc[r] = "blueprint"
    /\ phase[r] = "ret"
    /\ IF res[r].some
         THEN /\ feb' = Set(feb, r, "blueprint")
              /\ final_plan' = Set(final_plan, r, "blueprint")
              /\ Emit(r, <<Card("feb", "Blueprint")>>)
         ELSE /\ final_plan' = Set(final_plan, r, feb[r])
              /\ UNCHANGED <<feb, events>>
    /\ pc' = Set(pc, r, "debate")
    /\ phase' = Set(phase, r, "-")
    /\ res' = Set(res, r, NoRes)
    /\ UNCHANGED <<pruneVars, storeVars, loadVars, gateVars, engineVars, req, decompVars, feats, cfs, full_resp, logs,
                   raised, popped, iter, created, calls, observed>>

\* MAS.py L148-151
DebateStart(r) ==
    /\ program = "pipe"
    /\ pc[r] = "debate"
    /\ IF "debate" \in feats[r]
         THEN /\ Emit(r, << Status("5.0 Agon (Multi-Agent)"), Log("Strategos Alpha") >>)
              /\ pc' = Set(pc, r, "alpha")
              /\ phase' = Set(phase, r, "call")
         ELSE /\ pc' = Set(pc, r, "exec")
              /\ UNCHANGED <<phase, events>>
    /\ UNCHANGED <<pruneVars, storeVars, loadVars, gateVars, engineVars, req, res, decompVars, pipeVars, raised, popped,
                   iter, created, calls, observed>>

\* MAS.py L151-155: ENGINE.inference(...)['choices'] subscripts the result
\* unchecked; an absent result raises TypeError, which leaves the generator
PlanDone(r) ==
    /\ program = "pipe"
    /\ pc[r] \in {"alpha", "beta"}
    /\ phase[r] = "ret"
    /\ IF ~res[r].some
         THEN /\ raised' = Set(raised, r, "TypeError")
              /\ pc' = Set(pc, r, "raised")
              /\ phase' = Set(phase, r, "-")
              /\ UNCHANGED events
         ELSE /\ Emit(r, <<Log(IF pc[r] = "alpha" THEN "Strategos Beta"
                                                   ELSE "Dikastes Verdict")>>)
              /\ pc' = Set(pc, r, IF pc[r] = "alpha" THEN "beta" ELSE "verdict")
              /\ phase' = Set(phase, r, "call")
              /\ UNCHANGED raised
    /\ res' = Set(res, r, NoRes)
    /\ UNCHANGED <<pruneVars, storeVars, loadVars, gateVars, engineVars, req, decompVars, pipeVars, popped, iter, created,
                   calls, observed>>

\* MAS.py L156-158 without L157, as a bug would have it: the blueprint stays
\* the plan
VerdictDone_keepblueprint(r) ==
    /\ program = "pipe"
    /\ pc[r] = "verdict"
    /\ phase[r] = "ret"
    /\ IF res[r].some
         THEN /\ UNCHANGED final_plan
              /\ Emit(r, <<Card("final_plan", "Verdict")>>)
         ELSE UNCHANGED <<final_plan, events>>
    /\ pc' = Set(pc, r, "exec")
    /\ phase' = Set(phase, r, "-")
    /\ res' = Set(res, r, NoRes)
    /\ UNCHANGED <<pruneVars, storeVars, loadVars, gateVars, engineVars, req, decompVars, feats, cfs, feb, full_resp, logs,
                   raised, popped, iter, created, calls, observed>>

\* MAS.py L156-158
VerdictDone(r) ==
    /\ program = "pipe"
    /\ pc[r] = "verdict"
    /\ phase[r] = "ret"
    /\ IF res[r].some
         THEN /\ final_plan' = Set(final_plan, r, "verdict")
              /\ Emit(r, <<Card("final_plan", "Verdict")>>)
         ELSE UNCHANGED <<final_plan, events>>
    /\ pc' = Set(pc, r, "exec")
    /\ phase' = Set(phase, r, "-")
    /\ res' = Set(res, r, NoRes)
    /\ UNCHANGED <<pruneVars, storeVars, loadVars, gateVars, engineVars, req, decompVars, feats, cfs, feb, full_resp, logs,
                   raised, popped, iter, created, calls, observed>>

\* MAS.py L160-169: the streaming call; an absent stream skips the loop
ExecStart(r) ==
    /\ program = "pipe"
    /\ pc[r] = "exec"
    /\ Emit(r, <<Status("19.0 Hephaestus (Execution)")>>)
    /\ full_resp' = Set(full_resp, r, <<>>)
    /\ CASE model = "none" ->
              /\ pc' = Set(pc, r, "sim")
              /\ UNCHANGED <<inflight, calls, raised>>
         [] model = "loaded" ->
              /\ pc' = Set(pc, r, "stream")
              /\ inflight' = inflight \cup {r}
              /\ Called(r, "exec")
              /\ UNCHANGED raised
         [] model = "missing" ->
              /\ raised' = Set(raised, r, "AttributeError")
              /\ pc' = Set(pc, r, "raised")
              /\ UNCHANGED <<inflight, calls>>
    /\ UNCHANGED <<pruneVars, storeVars, loadVars, gateVars, program, model, lock, sessions, req, phase, res, decompVars,
                   feats, cfs, feb, final_plan, logs, popped, iter,
                   created, observed>>

\* MAS.py L170-173: one increment, with or without a code-block marker
ExecChunk(r) ==
    /\ program = "pipe"
    /\ pc[r] = "stream"
    /\ Len(full_resp[r]) < MaxChunks
    /\ \E txt \in {"txt", "code"} :
          /\ StreamAllowed(r, "exec", Append(full_resp[r], txt))
          /\ full_resp' = Set(full_resp, r, Append(full_resp[r], txt))
          /\ Emit(r, <<Token(txt)>>)
    /\ UNCHANGED <<pruneVars, storeVars, loadVars, gateVars, engineVars, req, pc, phase, res, decompVars, feats, cfs, feb,
                   final_plan, logs, raised, popped, iter, created, calls, observed>>

\* MAS.py L170: the stream is exhausted
ExecEnd(r) ==
    /\ program = "pipe"
    /\ pc[r] = "stream"
    /\ inflight' = inflight \ {r}
    /\ Answered(r, "exec", Streamed(full_resp[r], FALSE))
    /\ pc' = Set(pc, r, "sim")
    /\ UNCHANGED <<pruneVars, storeVars, loadVars, deterministic, verdicts, program, model, lock, sessions, req, phase, res, decompVars,
                   pipeVars, raised, obsVars>>

\* MAS.py L170: the stream raises; the loop stands in no try block, so the
\* error leaves the generator
ExecError(r) ==
    /\ program = "pipe"
    /\ pc[r] = "stream"
    /\ inflight' = inflight \ {r}
    /\ raised' = Set(raised, r, "StreamError")
    /\ Answered(r, "exec", Streamed(full_resp[r], TRUE))
    /\ pc' = Set(pc, r, "raised")
    /\ UNCHANGED <<pruneVars, storeVars, loadVars, deterministic, verdicts, program, model, lock, sessions, req, phase, res, decompVars,
                   pipeVars, obsVars>>

\* MAS.py L175: the code-block marker occurs in full_resp
HasCode(resp) == \E i \in 1 .. Len(resp) : resp[i] = "code"
\* MAS.py L181 without the test, as a bug would have it: every simulation is
\* followed by a repair
HasError_always(l) == TRUE

\* MAS.py L181
HasError(l) == l \in {"Error", "Traceback"}

\* MAS.py L175-177
SimStart(r) ==
    /\ program = "pipe"
    /\ pc[r] = "sim"
    /\ phase[r] = "-"
    /\ IF "simulation" \in feats[r] /\ HasCode(full_resp[r])
         THEN /\ Emit(r, <<Status("26.0 Basanos (Simulation)")>>)
              /\ phase' = Set(phase, r, "call")
              /\ UNCHANGED pc
         ELSE /\ pc' = Set(pc, r, "audit")
              /\ UNCHANGED <<phase, events>>
    /\ UNCHANGED <<pruneVars, storeVars, loadVars, gateVars, engineVars, req, res, decompVars, pipeVars, raised, popped,
                   iter, created, calls, observed>>

\* MAS.py L178-183
SimDone(r) ==
    /\ program = "pipe"
    /\ pc[r] = "sim"
    /\ phase[r] = "ret"
    /\ IF ~res[r].some
         THEN /\ pc' = Set(pc, r, "audit")
              /\ phase' = Set(phase, r, "-")
              /\ UNCHANGED <<logs, events>>
         ELSE /\ logs' = Set(logs, r, res[r].text)
              /\ IF HasError(res[r].text)
                   THEN /\ Emit(r, << Card("logs", "Sim Logs"),
                                      Status("4.5 Anakainosis (Repair)") >>)
                        /\ pc' = Set(pc, r, "repair")
                        /\ phase' = Set(phase, r, "call")
                   ELSE /\ Emit(r, <<Card("logs", "Sim Logs")>>)
                        /\ pc' = Set(pc, r, "audit")
                        /\ phase' = Set(phase, r, "-")
    /\ res' = Set(res, r, NoRes)
    /\ UNCHANGED <<pruneVars, storeVars, loadVars, gateVars, engineVars, req, decompVars, feats, cfs, feb, final_plan,
                   full_resp, raised, popped, iter, created, calls, observed>>

\* MAS.py L183-187 without the yield of L187, as a bug would have it: the
\* fix is kept in full_resp and never streamed
RepairDone_silent(r) ==
    /\ program = "pipe"
    /\ pc[r] = "repair"
    /\ phase[r] = "ret"
    /\ IF res[r].some
         THEN full_resp' = Set(full_resp, r, Append(full_resp[r], "Auto-Repair"))
         ELSE UNCHANGED full_resp
    /\ pc' = Set(pc, r, "audit")
    /\ phase' = Set(phase, r, "-")
    /\ res' = Set(res, r, NoRes)
    /\ UNCHANGED <<pruneVars, storeVars, loadVars, gateVars, engineVars, req, decompVars, feats, cfs, feb, final_plan, logs,
                   raised, popped, iter, created, calls, observed, events>>

\* MAS.py L184-187
RepairDone(r) ==
    /\ program = "pipe"
    /\ pc[r] = "repair"
    /\ phase[r] = "ret"
    /\ IF res[r].some
         THEN /\ full_resp' = Set(full_resp, r, Append(full_resp[r], "Auto-Repair"))
              /\ Emit(r, <<Token("Auto-Repair")>>)
         ELSE UNCHANGED <<full_resp, events>>
    /\ pc' = Set(pc, r, "audit")
    /\ phase' = Set(phase, r, "-")
    /\ res' = Set(res, r, NoRes)
    /\ UNCHANGED <<pruneVars, storeVars, loadVars, gateVars, engineVars, req, decompVars, feats, cfs, feb, final_plan, logs,
                   raised, popped, iter, created, calls, observed>>

\* MAS.py L194-197 without L196, as a bug would have it: the answer is not kept
\* and the run is done after the first append
PFinalize_useronly(r) ==
    /\ program = "pipe"
    /\ pc[r] = "final"
    /\ sessions' = [sessions EXCEPT ![req[r].session_id] =
                        @ \o << Turn("user", <<Prompt(r)>>) >>]
    /\ Emit(r, << Status("10.0 Kerberos (Final Gateway)"),
                  msg("done", "Ready", <<>>, 0, None) >>)
    /\ pc' = Set(pc, r, "done")
    /\ UNCHANGED <<pruneVars, storeVars, loadVars, gateVars, program, model, lock, inflight, req, phase, res, decompVars,
                   pipeVars, raised, popped, iter, created, calls, observed>>

\* MAS.py L194-195: the status line and the first append.  The two appends
\* of L195-196 are two statements under no lock: the threads of the other
\* requests (app.run(threaded=True)) may run between them.
PFinalize(r) ==
    /\ program = "pipe"
    /\ pc[r] = "final"
    /\ sessions' = [sessions EXCEPT ![req[r].session_id] =
                        @ \o << Turn("user", <<Prompt(r)>>) >>]
    /\ Emit(r, << Status("10.0 Kerberos (Final Gateway)") >>)
    /\ pc' = Set(pc, r, "answer")
    /\ UNCHANGED <<pruneVars, storeVars, loadVars, gateVars, program, model, lock, inflight, req, phase, res, decompVars,
                   pipeVars, raised, popped, iter, created, calls, observed>>

\* MAS.py L196-197: the second append and the done event
PFinalizeAnswer(r) ==
    /\ program = "pipe"
    /\ pc[r] = "answer"
    /\ sessions' = [sessions EXCEPT ![req[r].session_id] =
                        @ \o << Turn("assistant", full_resp[r]) >>]
    /\ Emit(r, << msg("done", "Ready", <<>>, 0, None) >>)
    /\ pc' = Set(pc, r, "done")
    /\ UNCHANGED <<pruneVars, storeVars, loadVars, gateVars, program, model, lock, inflight, req, phase, res, decompVars,
                   pipeVars, raised, popped, iter, created, calls, observed>>

\* the steps of a run whose flags were set by hand
ManualStep(r) ==
    \/ PBegin(r) \/ PInferenceCall(r) \/ PInferenceReturn(r)
    \/ StageStart(r) \/ StageDone(r) \/ BlueprintStart(r) \/ BlueprintDone(r)
    \/ DebateStart(r) \/ PlanDone(r) \/ VerdictDone(r) \/ ExecStart(r)
    \/ ExecChunk(r) \/ ExecEnd(r) \/ ExecError(r) \/ SimStart(r) \/ SimDone(r)
    \/ RepairDone(r) \/ PFinalize(r) \/ PFinalizeAnswer(r)

PipeStep(r) == ManualStep(r) \/ SelectorDone(r)

(***************************************************************************)
(* Requests and initial states                                             *)
(***************************************************************************)
\* settings are read by MAS.py only (MultiAgentSystem.py ignores them)
Request(sid, auto, manual) ==
    [session_id |-> sid, auto_mode |-> auto, manual |-> manual]
Requests(prog) ==
    IF prog = "decomp"
      THEN {Request(sid, FALSE, {}) : sid \in {KnownSession, UnknownSession}}
      ELSE [session_id : {KnownSession, UnknownSession}, auto_mode : BOOLEAN,
            manual : SUBSET Gates]
\* the requests of the concurrent runs: a known session, flags set by hand
ConcRequests(prog) ==
    IF prog = "decomp"
      THEN {Request(KnownSession, FALSE, {})}
      ELSE {Request(KnownSession, FALSE, m) : m \in {{}, Gates}}
NoRequest == Request(UnknownSession, FALSE, {})

\* the engine and the runs after construction (L16-26, L81) with the runs in
\* `active` about to start; a model may have been loaded before they arrive
BootRuns(obs, active) ==
    /\ program \in {"decomp", "pipe"}
    /\ model \in {"none", "loaded"}
    /\ lock = 0
    /\ inflight = {}
    /\ pc = [r \in Runs |-> IF r \in active THEN "start" ELSE "idle"]
    /\ phase = [r \in Runs |-> "-"]
    /\ res = [r \in Runs |-> NoRes]
    /\ task_stack = [r \in Runs |-> <<>>]
    /\ item = [r \in Runs |-> NoItem]
    /\ is_complex = [r \in Runs |-> TRUE]
    /\ val_w = [r \in Runs |-> Unset]
    /\ val_h = [r \in Runs |-> Unset]
    /\ val_i = [r \in Runs |-> "unset"]
    /\ content_chunk = [r \in Runs |-> <<>>]
    /\ global_context = [r \in Runs |-> <<>>]
    /\ feats = [r \in Runs |-> {}]
    /\ cfs = [r \in Runs |-> ""]
    /\ feb = [r \in Runs |-> ""]
    /\ final_plan = [r \in Runs |-> ""]
    /\ full_resp = [r \in Runs |-> <<>>]
    /\ logs = [r \in Runs |-> ""]
    /\ raised = [r \in Runs |-> "none"]
    /\ events = [r \in Runs |-> <<>>]
    /\ popped = [r \in Runs |-> <<>>]
    /\ iter = [r \in Runs |-> NoIter]
    /\ created = [r \in Runs |-> 0]
    /\ calls = [r \in Runs |-> <<>>]
    /\ observed = obs
    /\ ctx = <<>>
    /\ limit = MaxLimit
    /\ pruned = NotPruned
    /\ loader = "idle"
    /\ loads = 0

\* the server once one session has been created (/create_session)
Boot(obs, active) ==
    /\ BootRuns(obs, active)
    /\ sessions = [s \in {KnownSession} |-> <<>>]
    /\ StoreIdle
    /\ GateIdle

Init ==
    /\ Boot(TRUE, {1})
    /\ \E q \in Requests(program) :
          req = [r \in Runs |-> IF r = 1 THEN q ELSE NoRequest]

Next == DecompStep(1) \/ PipeStep(1)

Spec == Init /\ [][Next]_vars

\* one run of MultiAgentSystem.py whose client keeps reading the stream: the
\* generator is resumed after every event, and the gateway answers every call
DecompInit == Init /\ program = "decomp"

DecompNext == DecompStep(1)

FairSpec == DecompInit /\ [][DecompNext]_vars /\ WF_vars(DecompNext)

\* prune_context alone: every context of up to MaxCtx characters against
\* every limit from 1 to MaxLimit; no request is running
Chars == {"a", "b"}
Contexts == UNION {[1 .. n -> Chars] : n \in 0 .. MaxCtx}

PruneInit ==
    /\ program = "decomp"
    /\ model = "none"
    /\ lock = 0
    /\ inflight = {}
    /\ sessions = [s \in {KnownSession} |-> <<>>]
    /\ req = [r \in Runs |-> NoRequest]
    /\ pc = [r \in Runs |-> "idle"]
    /\ phase = [r \in Runs |-> "-"]
    /\ res = [r \in Runs |-> NoRes]
    /\ task_stack = [r \in Runs |-> <<>>]
    /\ item = [r \in Runs |-> NoItem]
    /\ is_complex = [r \in Runs |-> TRUE]
    /\ val_w = [r \in Runs |-> Unset]
    /\ val_h = [r \in Runs |-> Unset]
    /\ val_i = [r \in Runs |-> "unset"]
    /\ content_chunk = [r \in Runs |-> <<>>]
    /\ global_context = [r \in Runs |-> <<>>]
    /\ feats = [r \in Runs |-> {}]
    /\ cfs = [r \in Runs |-> ""]
    /\ feb = [r \in Runs |-> ""]
    /\ final_plan = [r \in Runs |-> ""]
    /\ full_resp = [r \in Runs |-> <<>>]
    /\ logs = [r \in Runs |-> ""]
    /\ raised = [r \in Runs |-> "none"]
    /\ events = [r \in Runs |-> <<>>]
    /\ popped = [r \in Runs |-> <<>>]
    /\ iter = [r \in Runs |-> NoIter]
    /\ created = [r \in Runs |-> 0]
    /\ calls = [r \in Runs |-> <<>>]
    /\ observed = FALSE
    /\ ctx \in Contexts
    /\ limit \in 1 .. MaxLimit
    /\ pruned = NotPruned
    /\ StoreIdle
    /\ GateIdle
    /\ loader = "idle"
    /\ loads = 0

PruneNext == Prune

\* the session store alone, from the empty store of L18; no request is running
PruneSpec == PruneInit /\ [][PruneNext]_vars

\* the session store alone, from the empty dict of L18; no request is running
StoreInit ==
    /\ BootRuns(FALSE, {})
    /\ req = [r \in Runs |-> NoRequest]
    /\ sessions = <<>>
    /\ created_at = <<>>
    /\ order = <<>>
    /\ clock = 0
    /\ issued = {}
    /\ ret = NoRet
    /\ GateIdle

\* two requests with the same text and settings, each on a session of its
\* own, the sessions having the same history; the gateway is deterministic.
OtherSession == "s2"
Histories == {<<>>, <<Turn("user", <<"p0">>), Turn("assistant", <<"t1">>)>>}

\* the requests compared: either session, auto mode on or off, no flag or
\* every flag set by hand
DetRequests(prog) ==
    IF prog = "decomp"
      THEN Requests(prog)
      ELSE {q \in Requests(prog) : q.manual \in {{}, Gates}}

DetInit ==
    /\ BootRuns(TRUE, {1, 2})
    /\ \E q \in DetRequests(program) :
          req = [r \in Runs |->
                   IF r = 1 THEN q
                   ELSE IF r = 2 /\ q.session_id = KnownSession
                     THEN [q EXCEPT !.session_id = OtherSession]
                   ELSE IF r = 2 THEN q
                   ELSE NoRequest]
    /\ \E h \in Histories : sessions = [s \in {KnownSession, OtherSession} |-> h]
    /\ created_at = [s \in {KnownSession, OtherSession} |-> 0]
    /\ order = <<KnownSession, OtherSession>>
    /\ clock = 0
    /\ issued = {KnownSession, OtherSession}
    /\ ret = NoRet
    /\ deterministic = TRUE
    /\ memo = NoMemo
    /\ verdicts = [r \in Runs |-> <<>>]

\* the runs take turns: run 2 moves while an answer is kept for it, and when
\* run 1 has ended
DetNext ==
    \/ NonePending /\ (DecompStep(1) \/ PipeStep(1))
    \/ MayAsk(2) /\ (DecompStep(2) \/ PipeStep(2))

DetSpec == DetInit /\ [][DetNext]_vars

StoreNext == CreateSession \/ GetSession \/ ListSessions \/ DeleteSession

StoreSpec == StoreInit /\ [][StoreNext]_vars

\* concurrent requests of one server (app.run(threaded=True)), unobserved
ConcInit ==
    /\ Boot(FALSE, Runs)
    /\ req \in [Runs -> ConcRequests(program)]

ConcNext == \E r \in Runs : DecompStep(r) \/ ManualStep(r)

ConcSpec == ConcInit /\ [][ConcNext]_vars

\* concurrent requests of MultiAgentSystem.py and a /load_model request; the
\* clients keep reading their streams, the gateway answers every call and
\* Llama(...) returns or raises
LockInit == ConcInit /\ program = "decomp"

LockNext == (\E r \in Runs : DecompStep(r)) \/ LoadCall \/ LoadStep

LockSpec ==
    /\ LockInit
    /\ [][LockNext]_vars
    /\ \A r \in Runs : WF_vars(DecompStep(r))
    /\ WF_vars(LoadStep)

\* concurrent requests of either server and a /load_model request
LoadInit == ConcInit

LoadNext == ConcNext \/ LoadCall \/ LoadStep

LoadSpec == LoadInit /\ [][LoadNext]_vars

(***************************************************************************)
(* Properties.  Run 1 is the observed run of Spec and FairSpec.            *)
(***************************************************************************)
Last(s) == s[Len(s)]
Parent(t) == SubSeq(t, 1, Len(t) - 1)
\* p is a proper ancestor of t
Above(p, t) == Len(p) < Len(t) /\ SubSeq(t, 1, Len(p)) = p
Count(s, Test(_)) == Cardinality({i \in 1 .. Len(s) : Test(s[i])})
IsWork(n) == n.type \in {"MAIN", "SUB"}
Decomp == program = "decomp"
Pipe == program = "pipe"
Known(r) == req[r].session_id \in DOMAIN sessions

\* C1: the sub-tasks of a split are popped in list order, one level below
\* their parent; the RESUME item of a task is popped, and its aggregation card
\* emitted, only when every descendant of the task has been popped and nothing
\* of the task is left on the stack; between a task and its RESUME nothing but
\* its descendants is processed.
C1_SplitOrder ==
    Decomp =>
      LET P == popped[1]
          N == 1 .. Len(P)
          IsResumeCard(e) == e.type = "card" /\ e.target = "Context"
      IN
        /\ \A i, j \in N :
              (i < j /\ P[i].type = "SUB" /\ P[j].type = "SUB"
                 /\ Parent(P[i].task) = Parent(P[j].task))
              => Last(P[i].task) < Last(P[j].task)
        /\ \A j \in N :
              P[j].type = "SUB" =>
                /\ Last(P[j].task) > 1 =>
                      \E i \in 1 .. j - 1 :
                          P[i] = [P[j] EXCEPT !.task = Append(Parent(P[j].task),
                                                              Last(P[j].task) - 1)]
                /\ \E i \in 1 .. j - 1 :
                      /\ IsWork(P[i])
                      /\ P[i].task = Parent(P[j].task)
                      /\ P[j].depth = P[i].depth + 1
        /\ \A k \in N :
              P[k].type = "RESUME" =>
                /\ \A m \in N : Above(P[k].task, P[m].task) => m < k
                /\ \A m \in 1 .. Len(task_stack[1]) :
                      ~Above(P[k].task, task_stack[1][m].task)
                /\ \E i \in 1 .. k - 1 :
                      /\ IsWork(P[i])
                      /\ P[i].task = P[k].task
                      /\ P[i].depth = P[k].depth
                      /\ \A m \in i + 1 .. k - 1 : Above(P[k].task, P[m].task)
        /\ LET IsResume(n) == n.type = "RESUME"
               cards == SelectSeq(events[1], IsResumeCard)
               resumes == SelectSeq(P, IsResume)
           IN /\ Len(cards) = Len(resumes)
              /\ \A i \in 1 .. Len(cards) :
                    cards[i] = msg("card", "Sub-tasks completed for",
                                   resumes[i].task, resumes[i].depth, "Context")

\* a depth-1 split into two sub-tasks has run: t1, t2, RESUME(original)
C1_Witness ==
    /\ Decomp
    /\ popped[1] = << Node(1, <<>>, "MAIN"), Node(2, <<1>>, "SUB"),
                      Node(2, <<2>>, "SUB"), Node(1, <<>>, "RESUME") >>
    /\ Last(events[1]).target = "Context"

\* C2: an item popped at depth >= MAX_DEPTH is never asked the single-step
\* question and never split: it goes to leaf execution; no item deeper than
\* MAX_DEPTH is ever on the work stack.
C2_DepthBound ==
    Decomp =>
      /\ \A m \in 1 .. Len(task_stack[1]) : task_stack[1][m].depth <= MAX_DEPTH
      /\ item[1].depth <= MAX_DEPTH
      /\ (IsWork(item[1]) /\ item[1].depth >= MAX_DEPTH) =>
            /\ pc[1] \notin {"single", "split"}
            /\ val_i[1] # "NO"
            /\ iter[1].split = "none"
            /\ iter[1].pushed = 0
            /\ pc[1] = "loop" => iter[1].executed

\* a complex item at depth MAX_DEPTH is streaming its leaf answer
C2_Witness ==
    /\ Decomp
    /\ item[1].depth = MAX_DEPTH
    /\ is_complex[1]
    /\ val_w[1] = <<"Execute task">>
    /\ pc[1] = "stream"

\* C3: a malformed split answer (no array, unparsable array, absent result)
\* raises nothing out of the engine and the item is executed as a leaf before
\* the next item is popped.
C3_MalformedSplitRunsLeaf ==
    Decomp =>
      (iter[1].split \in {"nomatch", "badjson", "absent"} =>
          /\ raised[1] = "none"
          /\ pc[1] \in {"leaf", "leaf_lock", "leaf_create", "stream"}
                \/ iter[1].executed)

\* C4: at most one done event, and it is the last event; every card has a
\* target; every event has one of the five types.
C4_StreamWellFormed ==
    LET E == events[1]
        IsDone(e) == e.type = "done"
    IN /\ \A i \in 1 .. Len(E) :
            /\ E[i].type \in {"status", "log", "card", "token", "done"}
            /\ E[i].type = "done" => i = Len(E)
            /\ E[i].type = "card" => E[i].target # None
       /\ Count(E, IsDone) <= 1

\* a finished stream that carries cards
C4_Witness ==
    /\ pc[1] = "done"
    /\ Last(events[1]).type = "done"
    /\ \E i \in 1 .. Len(events[1]) : events[1][i].type = "card"

\* the items a step pushes: none, or one RESUME at the item's depth followed
\* by one SUB per sub-task one level deeper
PushesNothingOrSplit ==
    LET old == task_stack[1]
        new == task_stack'[1]
        n == Len(new) - Len(old) - 1
    IN (Decomp /\ pc[1] # "start" /\ Len(new) > Len(old)) =>
          /\ pc[1] = "split" /\ res[1].some
          /\ n = Len(res[1].text.elems)
          /\ SubSeq(new, 1, Len(old)) = old
          /\ new[Len(old) + 1] = Node(item[1].depth, item[1].task, "RESUME")
          /\ \A i \in 1 .. n :
                /\ new[Len(old) + 1 + i].type = "SUB"
                /\ new[Len(old) + 1 + i].depth = item[1].depth + 1

RECURSIVE Power(_, _)
Power(b, e) == IF e = 0 THEN 1 ELSE b * Power(b, e - 1)

\* C5: with a gateway that answers, the loop ends with an empty stack; an
\* item pushes nothing or count(sub-tasks)+1 items; at depth d no more than
\* MaxBranch^(d-1) items are processed and none below MAX_DEPTH, which bounds
\* the number of items processed.
C5_Terminates ==
    /\ (Decomp /\ model = "loaded" /\ Known(1))
          => <>(pc[1] = "done" /\ task_stack[1] = <<>>)
    /\ [][PushesNothingOrSplit]_vars
    /\ [](Decomp =>
            \A d \in 1 .. MAX_DEPTH + 1 :
                Cardinality({k \in 1 .. Len(popped[1]) :
                                IsWork(popped[1][k]) /\ popped[1][k].depth = d})
                  <= IF d <= MAX_DEPTH THEN Power(MaxBranch, d - 1) ELSE 0)

\* a run that split twice has ended
C5_Witness ==
    /\ Decomp
    /\ pc[1] = "done"
    /\ task_stack[1] = <<>>
    /\ created[1] >= 2
    /\ \E k \in 1 .. Len(popped[1]) : popped[1][k].depth = MAX_DEPTH

\* C6: in decomposition mode at most one gateway call is in flight, a leaf
\* stream counting from its creation to its end; the call in flight is the
\* lock holder's.
C6_OneCallInFlight ==
    Decomp =>
      /\ Cardinality(inflight) <= 1
      /\ inflight = {r \in Runs : phase[r] = "run" \/ pc[r] = "stream"}
      /\ \A r \in inflight : lock = r

\* run 1 streams a leaf while run 2 waits for the lock
C6_Witness ==
    /\ Decomp
    /\ pc[1] = "stream"
    /\ content_chunk[1] # <<>>
    /\ phase[2] = "wait" \/ pc[2] = "leaf_lock"

\* C7: in pipeline mode at most one inference call is in flight.
C7_PipeOneCallInFlight ==
    Pipe => Cardinality(inflight) <= 1

\* C8: pipeline mode, no model loaded, known session: no stage fails the run
\* and no card is emitted.
C8_PipeUnavailable ==
    (Pipe /\ model = "none" /\ Known(1)) =>
        /\ raised[1] = "none"
        /\ pc[1] # "raised"
        /\ \A i \in 1 .. Len(events[1]) : events[1][i].type # "card"

\* C9: decomposition mode, no model loaded, known session: the run does not
\* fail.
C9_DecompUnavailable ==
    (Decomp /\ model = "none" /\ Known(1)) =>
        /\ raised[1] = "none"
        /\ pc[1] # "raised"

\* the step on which a leaf stream raises
StreamRaises == ~iter[1].error /\ iter'[1].error

ErrorTokens(E) ==
    Cardinality({i \in 1 .. Len(E) : E[i].type = "token" /\ E[i].content = "Error"})

\* C10: an error raised by a leaf stream is caught and becomes exactly one
\* error token; the stack is left as it was, and once an error token is out
\* the run ends up, for good, with every item popped and the done event sent.
C10_StreamErrorCaught ==
    /\ [][(Decomp /\ StreamRaises) =>
            /\ events'[1] = Append(events[1], msg("token", "Error", <<>>, 0, None))
            /\ raised'[1] = "none"
            /\ task_stack'[1] = task_stack[1]
            /\ pc'[1] = "loop"]_vars
    /\ <>[]((Decomp /\ ErrorTokens(events[1]) > 0)
                => (task_stack[1] = <<>> /\ pc[1] = "done"))
    /\ [](Decomp /\ pc[1] = "done" =>
            /\ Last(events[1]).type = "done"
            /\ Len(popped[1]) = 1 + created[1]
                  + Cardinality({k \in 1 .. Len(popped[1]) :
                                    popped[1][k].type = "RESUME"}))

\* a leaf stream raised, the item after it was analysed, and the run is done
C10_Witness ==
    /\ Decomp
    /\ pc[1] = "done"
    /\ \E i \in 1 .. Len(events[1]) :
          /\ events[1][i].content = "Error"
          /\ \E j \in i + 1 .. Len(events[1]) : events[1][j].content = "WHI Analysis"

\* C11: pipeline mode: an error raised by the execution stream does not leave
\* the generator: it is caught, and the run goes on to finalization.
C11_PipeStreamErrorCaught ==
    Pipe => /\ raised[1] # "StreamError"
            /\ pc[1] = "raised" => raised[1] = "TypeError"

\* the selector's log line is in the stream: the classification was parsed
AutoSelected(E) ==
    \E i \in 1 .. Len(E) : E[i].type = "log" /\ E[i].content = "Auto-Selected"

\* C12: pipeline mode, auto mode on: once the selector is over without a
\* parsed classification (absent result or unparsable span) the flags in force
\* are the default set, whatever the manual flags, and nothing was raised.
C12_SelectorFallback ==
    (Pipe /\ Known(1) /\ req[1].auto_mode
          /\ pc[1] \notin {"start", "selector"} /\ ~AutoSelected(events[1])) =>
        /\ feats[1] = DefaultFeats
        /\ pc[1] = "facts" => raised[1] = "none"

\* C13: the Classify step takes a node for complex unless the router's answer
\* contains NO: an answer with neither YES nor NO, and an absent result, both
\* count as complex.
C13_ComplexUnlessNo ==
    [][(Decomp /\ pc[1] = "router" /\ phase[1] = "ret" /\ pc'[1] # "router") =>
          (is_complex'[1] <=> (~res[1].some \/ "NO" \notin res[1].text))]_vars

\* the stage status lines of MAS.py in the order the spec fixes, then done
StageOrder ==
    << "0.0 Parmenides (Facts)", "14.0 Noesis (Deep Analysis)",
       "16.0 Utias (Topology)", "0-Phase Prometheus (Blueprint)",
       "5.0 Agon (Multi-Agent)", "19.0 Hephaestus (Execution)",
       "26.0 Basanos (Simulation)", "4.5 Anakainosis (Repair)",
       "29.0 Praetorian (Audit)", "10.0 Kerberos (Final Gateway)", "Ready" >>
IsStage(e) ==
    e.type \in {"status", "done"} /\ \E k \in 1 .. Len(StageOrder) : StageOrder[k] = e.content
Rank(e) == CHOOSE k \in 1 .. Len(StageOrder) : StageOrder[k] = e.content
HasStatus(E, c) == \E i \in 1 .. Len(E) : E[i].type = "status" /\ E[i].content = c

\* the stage lines emitted so far are in the fixed order, none twice
StagesInOrder(E) ==
    \A i, j \in 1 .. Len(E) :
        (i < j /\ IsStage(E[i]) /\ IsStage(E[j])) => Rank(E[i]) < Rank(E[j])

\* the line of an optional stage is there only if its flag is in force
StagesGated(E, f) ==
    /\ \A g \in GatedStages : HasStatus(E, StageStatus(g)) => g \in f
    /\ HasStatus(E, "5.0 Agon (Multi-Agent)") => "debate" \in f
    /\ HasStatus(E, "26.0 Basanos (Simulation)") => "simulation" \in f
    /\ HasStatus(E, "4.5 Anakainosis (Repair)") => "simulation" \in f

\* C14: pipeline mode, known session: the stage lines come in the fixed
\* order, an optional stage's line only with its flag, and every run that has
\* ended went through the blueprint and the execution stage.
C14_StageOrder ==
    (Pipe /\ Known(1)) =>
        /\ StagesInOrder(events[1])
        /\ StagesGated(events[1], feats[1])
        /\ pc[1] \in {"done", "raised"} =>
              /\ HasStatus(events[1], "0-Phase Prometheus (Blueprint)")
              /\ HasStatus(events[1], "19.0 Hephaestus (Execution)")

IsCard(e) == e.type = "card"
IsToken(e) == e.type = "token"
IsStep(e) == e.type \in {"status", "log", "done"}
Targets(E) == [i \in 1 .. Len(SelectSeq(E, IsCard)) |-> SelectSeq(E, IsCard)[i].target]

\* the status, log and done events of scenario 2, in order
Scenario2Steps ==
    << Status("Initializing"), Status("Dynamic Protocol Selection"),
       AutoSelectedLog({"facts", "debate"}), Status("Apollo Integrity Check"),
       Status("0.0 Parmenides (Facts)"), Status("0-Phase Prometheus (Blueprint)"),
       Status("5.0 Agon (Multi-Agent)"), Log("Strategos Alpha"),
       Log("Strategos Beta"), Log("Dikastes Verdict"),
       Status("19.0 Hephaestus (Execution)"),
       Status("10.0 Kerberos (Final Gateway)"), msg("done", "Ready", <<>>, 0, None) >>

Scenario2 ==
    /\ Pipe /\ Known(1) /\ req[1].auto_mode /\ model = "loaded"
    /\ \E i \in 1 .. Len(events[1]) : events[1][i] = AutoSelectedLog({"facts", "debate"})

\* C15: auto mode on, gateway available, classification {facts, debate}: the
\* run does facts, blueprint, debate (two plan calls, then the verdict call)
\* and execution, skips deep, topology, simulation and audit, and ends with
\* done; only an error of the execution stream itself can end it otherwise.
C15_Scenario2 ==
    Scenario2 =>
        /\ feats[1] = {"facts", "debate"}
        /\ pc[1] # "repair"
        /\ pc[1] \in {"deep", "topology", "sim", "audit"} => phase[1] = "-"
        /\ pc[1] = "raised" => raised[1] = "StreamError"
        /\ \A i \in 1 .. Len(calls[1]) :
              calls[1][i] = <<"selector", "facts", "blueprint", "alpha", "beta",
                              "verdict", "exec">>[i]
        /\ pc[1] = "done" =>
              /\ SelectSeq(events[1], IsStep) = Scenario2Steps
              /\ Targets(events[1]) = <<"Facts", "Blueprint", "Verdict">>
              /\ calls[1] = <<"selector", "facts", "blueprint", "alpha", "beta",
                              "verdict", "exec">>

\* scenario 2 has run to its end
C15_Witness ==
    /\ Scenario2
    /\ pc[1] = "done"
    /\ Last(events[1]).type = "done"
    /\ Len(calls[1]) = 7

\* C16: a node classified not complex gets no goal, plan, single-step or split
\* call at any depth; it is executed as a leaf with the placeholder goal and
\* plan; a not-complex root request's stream ends: leaf status, the tokens in
\* generation order, done.
C16_SimplePath ==
    (Decomp /\ IsWork(item[1]) /\ ~is_complex[1]) =>
        /\ pc[1] \notin {"what", "how", "single", "split"}
        /\ \A i \in 1 .. Len(calls[1]) : calls[1][i] = <<"router", "leaf">>[i]
        /\ iter[1].split = "none" /\ iter[1].pushed = 0
        /\ pc[1] \in {"decide", "leaf", "leaf_lock", "leaf_create", "stream", "loop", "done"}
        /\ pc[1] # "router" =>
              /\ val_w[1] = <<"Chat with user">>
              /\ val_h[1] = <<"Reply naturally">>
              /\ val_i[1] = "YES"
        /\ pc[1] \in {"loop", "done"} => iter[1].executed /\ calls[1] = <<"router", "leaf">>
        /\ (item[1].type = "MAIN" /\ pc[1] = "done") =>
              LET E == events[1]
                  n == Len(content_chunk[1])
              IN /\ E[6] = msg("status", "CLEAR. Executing", <<>>, 1, None)
                 /\ \A i \in 1 .. n :
                       E[6 + i] = msg("token", content_chunk[1][i], <<>>, 0, None)
                 /\ Len(E) \in {n + 7, n + 8}
                 /\ Len(E) = n + 8 =>
                       (iter[1].error /\ E[n + 7] = msg("token", "Error", <<>>, 0, None))
                 /\ Last(E) = msg("done", "Ready", <<>>, 0, None)

\* a not-complex root request below MAX_DEPTH has streamed two tokens and ended
C16_Witness ==
    /\ Decomp
    /\ item[1] = Node(1, <<>>, "MAIN")
    /\ ~is_complex[1]
    /\ pc[1] = "done"
    /\ content_chunk[1] = <<"t1", "t2">>
    /\ Len(events[1]) = 9

\* the next item to pop is a RESUME item
ResumeNext ==
    /\ Decomp /\ pc[1] = "loop" /\ task_stack[1] # <<>>
    /\ Top(task_stack[1]).type = "RESUME"

\* what processing a RESUME item leaves alone: no call is started, nothing is
\* pushed, the running context and the session are as they were
ResumeFrame ==
    /\ task_stack'[1] = Rest(task_stack[1])
    /\ global_context'[1] = global_context[1]
    /\ pc'[1] = "loop" /\ phase'[1] = "-"
    /\ calls'[1] = <<>> /\ inflight' = inflight /\ lock' = lock
    /\ sessions' = sessions /\ raised'[1] = "none"

\* C17 as claimed: processing a RESUME item calls nothing, pushes nothing,
\* keeps the running context, and emits one event only, the aggregation event
\* naming the completed task.
C17_ResumeOneEvent ==
    [][ResumeNext =>
          /\ ResumeFrame
          /\ events'[1] = Append(events[1],
                 msg("card", "Sub-tasks completed for", Top(task_stack[1]).task,
                     Top(task_stack[1]).depth, "Context"))]_vars

\* C17 as amended: the aggregation card comes after a status line, and these
\* two events are all that is emitted.
C17_ResumeOnlyReports ==
    [][ResumeNext =>
          /\ ResumeFrame
          /\ events'[1] = events[1] \o
                << msg("status", "Context Aggregation", <<>>,
                       Top(task_stack[1]).depth, None),
                   msg("card", "Sub-tasks completed for", Top(task_stack[1]).task,
                       Top(task_stack[1]).depth, "Context") >>]_vars

\* the RESUME item of a sub-task was processed while the root's RESUME waits
C17_Witness ==
    /\ Decomp
    /\ item[1].type = "RESUME"
    /\ item[1].depth = 2
    /\ pc[1] = "loop"
    /\ task_stack[1] # <<>>
    /\ Last(events[1]).target = "Context"

\* C18: prune_context(ctx, L) is the marker followed by the last L characters
\* of ctx when ctx is longer than L, and ctx itself otherwise.
C18_PruneContext ==
    pruned.returned =>
        IF Len(ctx) > limit
          THEN /\ Len(pruned.text) = limit + 1
               /\ pruned.text[1] = Marker
               /\ \A i \in 1 .. limit :
                     pruned.text[1 + i] = ctx[Len(ctx) - limit + i]
          ELSE pruned.text = ctx

\* a context two characters too long was cut down to its last characters
C18_Witness ==
    /\ pruned.returned
    /\ limit >= 2
    /\ Len(ctx) = limit + 2
    /\ ctx[1] # ctx[Len(ctx)]
    /\ pruned.text[1] = Marker

History(r) == sessions[req[r].session_id]

\* C19: a pipeline run appends to the session history at one point only, right
\* before the done event: the user Turn with the prompt, then the assistant
\* Turn with the full response, and between the first append and the done
\* event nothing else is emitted; a run that is done has appended these two.
C19_PipeTwoTurns ==
    /\ [][(Pipe /\ sessions' # sessions) =>
            \/ /\ pc[1] = "final" /\ pc'[1] = "answer"
               /\ sessions' = [sessions EXCEPT ![req[1].session_id] =
                                  @ \o << Turn("user", <<Prompt(1)>>) >>]
            \/ /\ pc[1] = "answer" /\ pc'[1] = "done"
               /\ events'[1] = Append(events[1], msg("done", "Ready", <<>>, 0, None))
               /\ \A i \in 1 .. Len(events[1]) : events[1][i].type # "done"
               /\ sessions' = [sessions EXCEPT ![req[1].session_id] =
                                  @ \o << Turn("assistant", full_resp[1]) >>]]_vars
    /\ [](Pipe /\ Known(1) =>
            CASE pc[1] = "done" ->
                   History(1) = << Turn("user", <<Prompt(1)>>),
                                   Turn("assistant", full_resp[1]) >>
              [] pc[1] = "answer" ->
                   History(1) = << Turn("user", <<Prompt(1)>>) >>
              [] OTHER -> History(1) = <<>>)

C19_Witness ==
    /\ Pipe
    /\ pc[1] = "done"
    /\ full_resp[1] # <<>>
    /\ Len(sessions[KnownSession]) = 2
    /\ sessions[KnownSession][2].content = full_resp[1]

Finished == {r \in Runs : pc[r] = "done"}

\* C20: in decomposition mode the history changes only when a run emits done,
\* by one Turn, the run's prompt with role user; every run that is done has
\* its one Turn there, and the history holds user Turns only.
C20_DecompUserTurnOnly ==
    /\ [][(Decomp /\ sessions' # sessions) =>
            \E r \in Runs :
                /\ pc[r] = "loop" /\ pc'[r] = "done"
                /\ sessions' = [sessions EXCEPT ![req[r].session_id] =
                                   Append(@, Turn("user", <<Prompt(r)>>))]]_vars
    /\ [](Decomp =>
            LET H == sessions[KnownSession] IN
              /\ \A i \in 1 .. Len(H) : H[i].role = "user"
              /\ Len(H) = Cardinality(Finished)
              /\ \A r \in Finished :
                    \E i \in 1 .. Len(H) : H[i] = Turn("user", <<Prompt(r)>>))

\* a run that streamed a leaf answer is done: the history is its user Turn
C20_Witness ==
    /\ Decomp
    /\ pc[1] = "done"
    /\ content_chunk[1] # <<>>
    /\ sessions[KnownSession] = <<Turn("user", <<Prompt(1)>>)>>

\* C21: in both modes a run on a session id the store does not hold emits no
\* event, enters no gateway call and leaves the store as it was.
C21_UnknownSessionSilent ==
    /\ [](~Known(1) =>
            /\ events[1] = <<>>
            /\ calls[1] = <<>>
            /\ inflight = {} /\ lock = 0
            /\ phase[1] = "-"
            /\ pc[1] \in {"start", "returned"}
            /\ raised[1] = "none")
    /\ [][~Known(1) => sessions' = sessions]_vars

\* the run of an unknown session has returned
C21_Witness ==
    /\ ~Known(1)
    /\ pc[1] = "returned"


(***************************************************************************)
(* C22: the session store                                                  *)
(***************************************************************************)
Ids(listing) == {listing[i].id : i \in 1 .. Len(listing)}
Live == DOMAIN sessions
\* every other session is the one it was
OthersKept(uid) ==
    \A u \in Live \ {uid} :
        /\ u \in DOMAIN sessions'
        /\ sessions'[u] = sessions[u]
        /\ created_at'[u] = created_at[u]

CreateContract ==
    ret'.op = "create" =>
        /\ ret'.arg \notin issued
        /\ ret'.arg \notin Live
        /\ DOMAIN sessions' = Live \cup {ret'.arg}
        /\ sessions'[ret'.arg] = <<>>
        /\ OthersKept(ret'.arg)

GetContract ==
    ret'.op = "get" =>
        /\ ret'.found = (ret'.arg \in Live)
        /\ ret'.found =>
              /\ ret'.sess.id = ret'.arg
              /\ ret'.sess.history = sessions[ret'.arg]
        /\ sessions' = sessions /\ created_at' = created_at

DeleteContract ==
    ret'.op = "delete" =>
        /\ DOMAIN sessions' = Live \ {ret'.arg}
        /\ OthersKept(ret'.arg)
        /\ ret'.arg \notin Live => sessions' = sessions

ListContract ==
    ret'.op = "list" =>
        LET l == ret'.listing IN
          /\ Ids(l) = Live
          /\ Len(l) = Cardinality(Live)
          /\ \A i \in 1 .. Len(l) :
                /\ l[i].history = sessions[l[i].id]
                /\ l[i].created = created_at[l[i].id]
          /\ \A i, j \in 1 .. Len(l) : i < j => l[i].created >= l[j].created
          /\ sessions' = sessions /\ created_at' = created_at

\* C22: under every sequence of create/get/list/delete, create returns an id
\* never returned before whose session has an empty history, get returns the
\* stored session or absent for an id that is not live, delete removes exactly
\* the session named (nothing for an unknown id), and list returns exactly the
\* live sessions with their creation stamps in descending order.
C22_KeyedMap ==
    [][ret'.n = ret.n + 1 =>
          /\ CreateContract
          /\ GetContract
          /\ DeleteContract
          /\ ListContract]_vars

\* three sessions were created at two different times, one was deleted, and
\* the listing of the remaining two puts the later one first
C22_Witness ==
    /\ ret.op = "list"
    /\ Len(ret.listing) = 2
    /\ ret.listing[1].created > ret.listing[2].created
    /\ Cardinality(issued) = 3


(***************************************************************************)
(* C23: determinism                                                        *)
(***************************************************************************)
\* run r has got past the choice of its flags
FlagsChosen(r) == Pipe /\ pc[r] \notin {"idle", "start", "selector", "returned"}

\* one of the two sequences continues the other
Agree(a, b) == IsPrefix(a, b) \/ IsPrefix(b, a)

\* C23: with a gateway that answers equal prompts with equal responses, two
\* runs with the same request text, settings and session history judge the
\* same nodes with the same verdicts (decomposition mode), use the same flags
\* (pipeline mode) and emit the same events: at every moment the events of
\* one continue the events of the other, and when both have ended they have
\* emitted the same sequence and ended the same way.
C23_Deterministic ==
    /\ Agree(events[1], events[2])
    /\ Agree(verdicts[1], verdicts[2])
    /\ (FlagsChosen(1) /\ FlagsChosen(2)) => feats[2] = feats[1]
    /\ (Ended(1) /\ Ended(2)) =>
          /\ events[2] = events[1]
          /\ verdicts[2] = verdicts[1]
          /\ pc[2] = pc[1]
          /\ raised[2] = raised[1]

\* both runs are done, and the router found one of their nodes complex and
\* another one simple
C23_Witness ==
    /\ Decomp
    /\ pc[1] = "done" /\ pc[2] = "done"
    /\ \E i, j \in 1 .. Len(verdicts[2]) :
          verdicts[2][i].complex /\ ~verdicts[2][j].complex
    /\ events[2] = events[1]

C23_WitnessPipe ==
    /\ Pipe /\ pc[2] = "done" /\ req[2].auto_mode /\ feats[2] = {"simulation"}
    /\ Len(full_resp[2]) = 2


(***************************************************************************)
(* C24: the feature selector                                               *)
(***************************************************************************)
IsAutoSelected(e) == e.type = "log" /\ e.content = "Auto-Selected"
\* the selector's result is a completion whose {...} span parses
Parsed(rs) == rs.some /\ rs.text.kind = "dict"

\* C24: pipeline mode.  With auto mode off the selector call is never made and
\* the flags in force are the manual flags.  With auto mode on, a parsed
\* selector answer makes its true keys the flags in force and emits one log
\* event that names them; an answer that does not parse, and an absent result,
\* emit no such log event.  Once the selector step is over the flags stay as
\* they are to the end of the run.
C24_FeatureSelector ==
    /\ [](Pipe /\ Known(1) /\ ~req[1].auto_mode =>
            /\ \A i \in 1 .. Len(calls[1]) : calls[1][i] # "selector"
            /\ pc[1] # "selector"
            /\ Count(events[1], IsAutoSelected) = 0
            /\ pc[1] # "start" => feats[1] = req[1].manual)
    /\ [][(Pipe /\ pc[1] = "selector" /\ pc'[1] # "selector") =>
            IF Parsed(res[1])
              THEN /\ feats'[1] = res[1].text.keys
                   /\ SelectSeq(events'[1], IsAutoSelected)
                        = <<msg("log", "Auto-Selected", res[1].text.keys, 0, None)>>
              ELSE Count(events'[1], IsAutoSelected) = 0]_vars
    /\ [][(Pipe /\ pc[1] \notin {"start", "selector"}) =>
            /\ feats'[1] = feats[1]
            /\ Count(events'[1], IsAutoSelected) = Count(events[1], IsAutoSelected)]_vars

\* a run in auto mode whose selector answer parsed has finished with the
\* selected flags, which differ from the manual ones, and with one log line
C24_Witness ==
    /\ Pipe /\ req[1].auto_mode /\ pc[1] = "done"
    /\ feats[1] = {"audit"} /\ req[1].manual = {"facts"}
    /\ Count(events[1], IsAutoSelected) = 1
    /\ calls[1][1] = "selector"


(***************************************************************************)
(* C25: the plan of the execution call                                     *)
(***************************************************************************)
HasCard(E, tgt) == \E i \in 1 .. Len(E) : E[i].type = "card" /\ E[i].target = tgt
\* the blueprint text: the blueprint call's result, empty when it was absent
Blueprint(r) == IF HasCard(events[r], "Blueprint") THEN "blueprint" ELSE ""

\* C25: pipeline mode.  The plan interpolated into the execution prompt is
\* the verdict text when the debate flag is in force and the verdict call
\* returned a result (its card was emitted); otherwise it is the blueprint
\* text, which is empty when the blueprint call returned nothing.
C25_ExecutionPlan ==
    (Pipe /\ Known(1) /\ pc[1] \in {"exec", "stream"}) =>
        /\ feb[1] = Blueprint(1)
        /\ PromptParts(1, "exec").plan =
              IF "debate" \in feats[1] /\ HasCard(events[1], "Verdict")
                THEN "verdict"
                ELSE Blueprint(1)
        /\ HasCard(events[1], "Verdict") => "debate" \in feats[1]

\* the execution stream runs on the verdict of a debate over a blueprint
C25_Witness ==
    /\ Pipe /\ pc[1] = "stream"
    /\ "debate" \in feats[1]
    /\ HasCard(events[1], "Blueprint") /\ HasCard(events[1], "Verdict")
    /\ final_plan[1] = "verdict"


(***************************************************************************)
(* C26: simulation and repair                                              *)
(***************************************************************************)
CalledAt(r, site) == \E i \in 1 .. Len(calls[r]) : calls[r][i] = site
\* the streamed increments: full_resp without the appended fix
StreamedPart(resp) == SelectSeq(resp, LAMBDA x : x # "Auto-Repair")
HasMarker(resp) == \E i \in 1 .. Len(resp) : resp[i] = "code"
SimWanted(r) == "simulation" \in feats[r] /\ HasMarker(StreamedPart(full_resp[r]))
RepairWanted(r) == SimWanted(r) /\ logs[r] \in {"Error", "Traceback"}

\* C26: pipeline mode.  The simulation call is made only with the simulation
\* flag in force and a code-block marker in the streamed response, and a run
\* that has got past the simulation stage has made it whenever both hold; the
\* repair call is made only, and then always, when in addition the simulation
\* logs hold "Error" or "Traceback"; a fix returned by the repair call is
\* appended to the response and emitted as one more token event, an absent
\* one changes neither.
C26_SimulationRepair ==
    /\ [](Pipe /\ Known(1) =>
            /\ CalledAt(1, "sim") => SimWanted(1)
            /\ CalledAt(1, "repair") => (CalledAt(1, "sim") /\ RepairWanted(1))
            /\ Count(calls[1], LAMBDA c : c = "sim") <= 1
            /\ Count(calls[1], LAMBDA c : c = "repair") <= 1
            /\ pc[1] \in {"audit", "final", "answer", "done"} =>
                  /\ SimWanted(1) => CalledAt(1, "sim")
                  /\ RepairWanted(1) => CalledAt(1, "repair"))
    /\ [][(Pipe /\ pc[1] = "repair" /\ pc'[1] # "repair") =>
            IF res[1].some
              THEN /\ full_resp'[1] = Append(full_resp[1], "Auto-Repair")
                   /\ events'[1] = Append(events[1], Token("Auto-Repair"))
              ELSE /\ full_resp'[1] = full_resp[1]
                   /\ events'[1] = events[1]]_vars

\* a run is done whose simulation reported an error and whose repair returned
\* a fix: the fix ends the response
C26_Witness ==
    /\ Pipe /\ pc[1] = "done"
    /\ CalledAt(1, "sim") /\ CalledAt(1, "repair")
    /\ logs[1] = "Error"
    /\ Last(full_resp[1]) = "Auto-Repair"
    /\ Count(events[1], LAMBDA e : e = Token("Auto-Repair")) = 1


(***************************************************************************)
(* C27: goal and plan at the leaf and at the split request                 *)
(***************************************************************************)
\* the prompt of the leaf execution or of the split request is being built or
\* has been sent
UsesGoalAndPlan(r) ==
    pc[r] \in {"split", "leaf", "leaf_lock", "leaf_create", "stream"}
Filled(v) == v # <<>> /\ v # Unset /\ \A i \in 1 .. Len(v) : v[i] \notin BadPhrases
\* what clean_resp leaves of a result; nothing when the result is absent
Extracted(rs) == IF rs.some THEN clean_resp(rs.text) ELSE <<>>

\* C27: decomposition mode.  Whenever a leaf is executed or a split is
\* requested, goal and plan are non-empty; on the simple path they are the
\* placeholders; on the complex path the goal is the extracted text, or
\* "Execute task" when that is empty or apologetic or the result is absent,
\* and the plan is the extracted text, or "Execute immediately" when that is
\* empty or the result is absent.
C27_GoalPlanFilled ==
    /\ [](Decomp /\ UsesGoalAndPlan(1) =>
            /\ Filled(val_w[1]) /\ Filled(val_h[1])
            /\ ~HasPhrase(val_w[1], "sorry") /\ ~HasPhrase(val_w[1], "understand")
            /\ ~is_complex[1] =>
                  /\ val_w[1] = <<"Chat with user">>
                  /\ val_h[1] = <<"Reply naturally">>)
    /\ [][(Decomp /\ pc[1] = "what" /\ pc'[1] # "what") =>
            val_w'[1] =
              IF \/ Extracted(res[1]) = <<>>
                 \/ HasPhrase(Extracted(res[1]), "sorry")
                 \/ HasPhrase(Extracted(res[1]), "understand")
                THEN <<"Execute task">> ELSE Extracted(res[1])]_vars
    /\ [][(Decomp /\ pc[1] = "how" /\ pc'[1] # "how") =>
            val_h'[1] =
              IF Extracted(res[1]) = <<>>
                THEN <<"Execute immediately">> ELSE Extracted(res[1])]_vars
    /\ [][(Decomp /\ UsesGoalAndPlan(1) /\ UsesGoalAndPlan(1)') =>
            (val_w'[1] = val_w[1] /\ val_h'[1] = val_h[1])]_vars

\* a split is requested with both fallbacks in force
C27_Witness ==
    /\ Decomp /\ pc[1] = "split" /\ phase[1] = "run"
    /\ val_w[1] = <<"Execute task">>
    /\ val_h[1] = <<"Execute immediately">>

C27_WitnessLeaf ==
    /\ Decomp /\ pc[1] = "stream" /\ is_complex[1]
    /\ val_w[1] = <<"goal">>
    /\ val_h[1] = <<"Execute immediately">>


(***************************************************************************)
(* C28, C29: what becomes of a node at the split step                      *)
(***************************************************************************)
\* the iteration on the MAIN or SUB node popped last is over
IterationOver(r) == pc[r] = "loop" /\ IsWork(item[r])
\* the split pushed at least one SUB node besides the RESUME item
HasChildren(r) == iter[r].pushed >= 2

\* C28: decomposition mode: when the iteration on a MAIN or SUB node is over,
\* the node was either executed as a leaf or split into at least one SUB
\* child, and not both, whatever the split answer was.
C28_NoTaskDropped ==
    (Decomp /\ IterationOver(1)) => (iter[1].executed # HasChildren(1))

\* C29: decomposition mode: a split attempt that falls back to leaf execution
\* leaves the work stack as it was, and no node is both executed as a leaf and
\* expanded (nothing was pushed for a node that is executed).
C29_SplitAllOrNothing ==
    /\ [][(Decomp /\ pc[1] = "split" /\ pc'[1] = "leaf") =>
            task_stack'[1] = task_stack[1]]_vars
    /\ [](Decomp /\ iter[1].executed => iter[1].pushed = 0)


(***************************************************************************)
(* C30: the lock under concurrency                                         *)
(***************************************************************************)
\* run r stands at "with ENGINE.lock" (L71, L190)
WaitsForLock(r) == phase[r] = "wait" \/ pc[r] = "leaf_lock"
Holders == Runs \cup {Loader}

\* every holder of the lock gives it up, and no run that is done holds it
C30_LockReleased ==
    /\ \A h \in Holders : [](lock = h => <>(lock # h))
    /\ [](\A r \in Runs : pc[r] = "done" => lock # r)

\* a run that waits for the lock gets past the with statement
C30_WaiterProceeds ==
    \A r \in Runs : [](WaitsForLock(r) => <>(~WaitsForLock(r)))

\* C30: decomposition mode, concurrent runs and load_model, clients that keep
\* reading and a gateway that answers: whoever takes ENGINE.lock gives it up
\* again, no run that is done holds it, and every run with a known session
\* that waits for the lock gets past it and in the end emits done.
C30_LockLiveness ==
    /\ C30_LockReleased
    /\ C30_WaiterProceeds
    /\ \A r \in Runs : []((Known(r) /\ WaitsForLock(r)) => <>(pc[r] = "done"))


(***************************************************************************)
(* C31: the model handle under concurrency                                 *)
(***************************************************************************)
\* the handle is None or a model
HandleWhole == model \in {"none", "loaded"}

\* run r raises in this step on reading the handle
RaisesOnHandle(r) == raised[r] = "none" /\ raised'[r] = "AttributeError"

\* C31: both programs, runs concurrent with load_model: the engine's handle
\* is at every instant None or a usable model, and no run raises on reading
\* the handle while a load is replacing it or after a load has failed.
C31_ModelHandle ==
    /\ []HandleWhole
    /\ [][\A r \in Runs : RaisesOnHandle(r) => HandleWhole]_vars

\* the second half alone, for either program
C31_NoRaiseDecomp ==
    [][\A r \in Runs : (Decomp /\ RaisesOnHandle(r)) => HandleWhole]_vars
C31_NoRaisePipe ==
    [][\A r \in Runs : (~Decomp /\ RaisesOnHandle(r)) => HandleWhole]_vars


(***************************************************************************)
(* C32: the history of a session shared by concurrent pipeline runs        *)
(***************************************************************************)
\* user and assistant Turns alternate, the user Turn first
Alternating(h) ==
    \A i \in 1..Len(h) :
        h[i].role = (IF i % 2 = 1 THEN "user" ELSE "assistant")

\* run r appends its assistant Turn in this step
WritesAnswer(r) == pc[r] = "answer" /\ pc'[r] = "done"

\* the Turn before the one just appended is the user Turn of run r
OwnPair(r) ==
    LET h == sessions'[req[r].session_id]
    IN  /\ Len(h) >= 2
        /\ h[Len(h)] = Turn("assistant", full_resp[r])
        /\ h[Len(h) - 1] = Turn("user", <<Prompt(r)>>)

\* C32: pipeline mode, concurrent runs on one session: the history is at
\* every instant a sequence of (user, assistant) pairs (the last pair may
\* still lack its answer), and the assistant Turn a run appends follows
\* that run's own user Turn.
C32_TurnsNotInterleaved ==
    /\ [](Pipe => \A s \in DOMAIN sessions : Alternating(sessions[s]))
    /\ [][\A r \in Runs : (Pipe /\ WritesAnswer(r)) => OwnPair(r)]_vars


(***************************************************************************)
(* C33: the stored answer is what was streamed                             *)
(***************************************************************************)
\* the contents of the token events of a stream, in emission order
TokenContents(ev) ==
    LET t == SelectSeq(ev, LAMBDA e : e.type = "token")
    IN  [i \in 1 .. Len(t) |-> t[i].content]

\* C33: pipeline mode, a run that is done: the assistant Turn it stored is
\* the last Turn of the history and its content is the concatenation, in
\* emission order, of the contents of the run's token events.
C33_AnswerIsTokens ==
    (Pipe /\ Known(1) /\ pc[1] = "done") =>
        /\ History(1) # <<>>
        /\ Last(History(1)).role = "assistant"
        /\ Last(History(1)).content = TokenContents(events[1])

\* a run that streamed an execution increment and then the repair fragment
C33_Witness ==
    /\ Pipe /\ Known(1) /\ pc[1] = "done"
    /\ Last(History(1)).content = <<"code", "Auto-Repair">>
    /\ TokenContents(events[1]) = <<"code", "Auto-Repair">>


(***************************************************************************)
(* C34: the work stack                                                     *)
(***************************************************************************)
NoDuplicates(s) == \A i, j \in 1 .. Len(s) : s[i] = s[j] => i = j

\* the events of run 1 of a given kind
Aggregations == Count(events[1], LAMBDA e : e.type = "card" /\ e.target = "Context")
SplitPlans   == Count(events[1], LAMBDA e : e.type = "card" /\ e.target = "Split Plan")
Analyses     == Count(events[1], LAMBDA e : e.type = "status" /\ e.content = "WHI Analysis")

\* every node pushed is popped and processed exactly once: a node leaves the
\* stack by being popped only, no node is popped twice or pushed again, each
\* pop is followed by the node's analysis or aggregation, and the run that
\* is done has emptied the stack
C34_PoppedOnce ==
    /\ [][(Decomp /\ task_stack'[1] # task_stack[1]) =>
            \/ /\ task_stack[1] # <<>>
               /\ task_stack'[1] = Rest(task_stack[1])
               /\ popped'[1] = Append(popped[1], Top(task_stack[1]))
            \/ /\ IsPrefix(task_stack[1], task_stack'[1])
               /\ popped'[1] = popped[1]]_vars
    /\ [](Decomp =>
            /\ NoDuplicates(popped[1] \o task_stack[1])
            /\ Aggregations = Count(popped[1], LAMBDA n : n.type = "RESUME")
            /\ Analyses = Count(popped[1], LAMBDA n : n.type # "RESUME")
            /\ pc[1] = "done" => task_stack[1] = <<>>)

\* as many aggregations as splits that went through (the Split Plan card of
\* L180 was emitted and L181 ended the iteration), once the run is done
C34_ResumePerSplit ==
    (Decomp /\ pc[1] = "done") => Aggregations = SplitPlans

\* whatever lies above a RESUME item is deeper than it
C34_DeeperAboveResume ==
    Decomp =>
        \A i, j \in 1 .. Len(task_stack[1]) :
            (i < j /\ task_stack[1][i].type = "RESUME") =>
                task_stack[1][j].depth > task_stack[1][i].depth

\* C34: decomposition mode: every node pushed on the work stack is popped
\* and processed exactly once, a run has as many RESUME aggregations as it
\* has successful splits, and every entry above a RESUME entry is strictly
\* deeper than that entry.
C34_StackDiscipline ==
    /\ C34_PoppedOnce
    /\ []C34_ResumePerSplit
    /\ []C34_DeeperAboveResume

====
